---- MODULE Spec2Model ----
(***************************************************************************)
(* A model of the Schema-Visualizer core: the grid pathfinder (findPath,   *)
(* reconstructPath, smoothPath) with the grid renderer's use of it, and    *)
(* the SQL and JSON schema extractors (parseSQL, parseJSONSchema).         *)
(***************************************************************************)
EXTENDS Integers, Sequences, FiniteSets, TLC

VARIABLES
    pc,            \* position in the modelled call
    start,         \* findPath argument: start point
    end,           \* findPath argument: end point
    obstacles,     \* findPath argument: list of obstacle rectangles
    canvasBounds,  \* findPath argument: {width, height}
    openList,      \* findPath local: Node[]
    closedList,    \* findPath local: Set of "x,y" keys
    spliced,       \* the nodes removed from openList so far, in order
    pathPoints,    \* value returned by findPath
    smoothedPath,  \* SVGLines local: smoothPath(pathPoints), then re-anchored
    path,          \* smoothPath argument
    once,          \* smoothPath(path)
    twice,         \* smoothPath(smoothPath(path))
    sql,           \* parseSQL argument: the SQL text
    sqlClauses,    \* the clauses the SQL text was written from
    sqlResult,     \* value returned by parseSQL
    json,          \* parseJSONSchema argument: the JSON text
    jsonColumns,   \* the column entries the JSON text was written from
    jsonResult,    \* value returned by parseJSONSchema
    state,         \* exportDiagram argument: the DiagramState
    content,       \* importDiagram argument: the text of the file
    imported,      \* value returned by importDiagram
    app,           \* App: the values held by its useState hooks
    timer,         \* App: what the start-up effect still has to run
    dragging,      \* TableCard: the id of the card being dragged, if any
    body,          \* splitColumns argument: the text between the parentheses
    pieces         \* value returned by splitColumns

vars == <<pc, start, end, obstacles, canvasBounds, openList, closedList,
          spliced, pathPoints, smoothedPath, path, once, twice,
          sql, sqlClauses, sqlResult, json, jsonColumns, jsonResult,
          state, content, imported, app, timer, dragging, body, pieces>>

pathVars == <<start, end, obstacles, canvasBounds, openList, closedList,
              spliced, pathPoints, smoothedPath>>
smoothVars == <<path, once, twice>>
parseVars == <<sql, sqlClauses, sqlResult, json, jsonColumns, jsonResult>>
diagramVars == <<state, content, imported>>
appVars == <<app, timer, dragging>>
splitVars == <<body, pieces>>

\* the values of the variables a specification does not use
IdlePath ==
    /\ start = [x |-> 0, y |-> 0]
    /\ end = [x |-> 0, y |-> 0]
    /\ obstacles = <<>>
    /\ canvasBounds = [width |-> 0, height |-> 0]
    /\ openList = <<>>
    /\ closedList = {}
    /\ spliced = <<>>
    /\ pathPoints = <<>>
    /\ smoothedPath = <<>>

IdleSmooth ==
    /\ path = <<>>
    /\ once = <<>>
    /\ twice = <<>>

IdleParse ==
    /\ sql = ""
    /\ sqlClauses = <<>>
    /\ sqlResult = <<>>
    /\ json = ""
    /\ jsonColumns = <<>>
    /\ jsonResult = <<>>

IdleDiagram ==
    /\ state = <<>>
    /\ content = ""
    /\ imported = <<>>

IdleApp ==
    /\ app = <<>>
    /\ timer = "none"
    /\ dragging = <<>>

IdleSplit ==
    /\ body = ""
    /\ pieces = <<>>

(***************************************************************************)
(* Bounds of the model.                                                    *)
(***************************************************************************)
GridW == 4      \* the canvas is GridW cells wide
GridH == 3      \* the canvas is GridH cells high
MaxLen == 4     \* longest point sequence handed to smoothPath directly
MaxClauses == 2 \* most clauses in a CREATE TABLE body, most columns in a JSON table

\* the sequences over S of length at most n
SeqsUpTo(S, n) == UNION { [1..k -> S] : k \in 0..n }

(***************************************************************************)
(* pathfinding.ts                                                          *)
(***************************************************************************)
GRID_SIZE == 20

Abs(n) == IF n < 0 THEN 0 - n ELSE n

\* Math.sign on integers
Sign(n) == IF n > 0 THEN 1 ELSE IF n < 0 THEN 0 - 1 ELSE 0

\* Math.round(v / GRID_SIZE) * GRID_SIZE for an integer v: halves round up
Snap(v) == ((2 * v + GRID_SIZE) \div (2 * GRID_SIZE)) * GRID_SIZE

Point(px, py) == [x |-> px, y |-> py]

\* createNode(x, y): g, h, f are 0 and there is no parent.  The optional
\* parent is a sequence of length 0 (undefined) or 1 (the parent node).
createNode(px, py) == [x |-> px, y |-> py, g |-> 0, h |-> 0, f |-> 0, parent |-> <<>>]

startNode == createNode(Snap(start.x), Snap(start.y))
endNode == createNode(Snap(end.x), Snap(end.y))

\* the key `${x},${y}` of a node in closedList
Key(n) == <<n.x, n.y>>

isObstacle(px, py, obs) ==
    \E i \in 1..Len(obs) :
        /\ px >= obs[i].x - GRID_SIZE
        /\ px <= obs[i].x + obs[i].width + GRID_SIZE
        /\ py >= obs[i].y - GRID_SIZE
        /\ py <= obs[i].y + obs[i].height + GRID_SIZE

\* line 75: the neighbour lies outside the canvas
OutOfBounds(nb, bounds) ==
    nb.x < 0 \/ nb.y < 0 \/ nb.x > bounds.width \/ nb.y > bounds.height

\* a faulty variant of LowestF: the comparison of line 47 reversed
HighestF(open) ==
    CHOOSE i \in 1..Len(open) :
        /\ \A j \in 1..Len(open) : open[j].f <= open[i].f
        /\ \A j \in 1..(i - 1) : open[j].f < open[i].f

\* lines 45-50: index of the node with the lowest f, the first one on ties
LowestF(open) ==
    CHOOSE i \in 1..Len(open) :
        /\ \A j \in 1..Len(open) : open[j].f >= open[i].f
        /\ \A j \in 1..(i - 1) : open[j].f > open[i].f

\* line 55: the goal test
GoalReached(current, goal) ==
    Abs(current.x - goal.x) < GRID_SIZE /\ Abs(current.y - goal.y) < GRID_SIZE

\* lines 63-68: the four neighbours, in the order the code visits them
Neighbors(current) ==
    << Point(current.x + GRID_SIZE, current.y),
       Point(current.x - GRID_SIZE, current.y),
       Point(current.x, current.y + GRID_SIZE),
       Point(current.x, current.y - GRID_SIZE) >>

\* line 78: Manhattan distance to the snapped goal
Heuristic(nb, goal) == Abs(nb.x - goal.x) + Abs(nb.y - goal.y)

\* a faulty variant of existingNode: the open node is never found
existingNodeMissed(open, nb) == 0

\* line 81: openList.find(...): index of the first open node at nb, 0 if none
existingNode(open, nb) ==
    IF \E i \in 1..Len(open) : open[i].x = nb.x /\ open[i].y = nb.y
    THEN CHOOSE i \in 1..Len(open) :
            /\ open[i].x = nb.x /\ open[i].y = nb.y
            /\ \A j \in 1..(i - 1) : ~(open[j].x = nb.x /\ open[j].y = nb.y)
    ELSE 0

\* line 91: the test that lets an open node be relaxed
Cheaper(g, existing) == g < existing.g

\* lines 71-95: the body of the neighbour loop for one neighbour
VisitNeighbor(open, nb, current, closed) ==
    IF <<nb.x, nb.y>> \in closed THEN open
    ELSE IF isObstacle(nb.x, nb.y, obstacles) THEN open
    ELSE IF OutOfBounds(nb, canvasBounds) THEN open
    ELSE LET g == current.g + GRID_SIZE
             h == Heuristic(nb, endNode)
             f == g + h
             idx == existingNode(open, nb)
         IN IF idx = 0
            THEN Append(open, [x |-> nb.x, y |-> nb.y, g |-> g, h |-> h,
                               f |-> f, parent |-> <<current>>])
            ELSE IF Cheaper(g, open[idx])
                 THEN [open EXCEPT ![idx].g = g, ![idx].f = f,
                                   ![idx].parent = <<current>>]
                 ELSE open

\* lines 70-96: the neighbour loop
RECURSIVE VisitNeighbors(_, _, _, _, _)
VisitNeighbors(open, nbs, k, current, closed) ==
    IF k > Len(nbs) THEN open
    ELSE VisitNeighbors(VisitNeighbor(open, nbs[k], current, closed),
                        nbs, k + 1, current, closed)

\* openList.splice(currentIndex, 1)
Splice(open, i) == SubSeq(open, 1, i - 1) \o SubSeq(open, i + 1, Len(open))

\* a faulty variant: path.push, which leaves the goal first
RECURSIVE reconstructPathGoalFirst(_)
reconstructPathGoalFirst(node) ==
    IF node.parent = <<>> THEN << Point(node.x, node.y) >>
    ELSE << Point(node.x, node.y) >> \o reconstructPathGoalFirst(node.parent[1])

RECURSIVE reconstructPath(_)
reconstructPath(node) ==
    IF node.parent = <<>> THEN << Point(node.x, node.y) >>
    ELSE Append(reconstructPath(node.parent[1]), Point(node.x, node.y))

\* a faulty variant of DirectLine: the snapped nodes instead of the caller's points
DirectLineSnapped(s, e) ==
    << Point(Snap(s.x), Snap(s.y)), Point(Snap(e.x), Snap(e.y)) >>

\* line 100: the direct line returned when no path was found
DirectLine(s, e) == << s, e >>

\* a faulty variant of SameDirection: one axis is enough
SameDirectionOneAxis(dx1, dy1, dx2, dy2) == dx1 = dx2 \/ dy1 = dy2

\* line 150: the point continues in the same direction
SameDirection(dx1, dy1, dx2, dy2) == dx1 = dx2 /\ dy1 = dy2

\* lines 139-156: the loop of smoothPath from index i (1-based) on
RECURSIVE SmoothFrom(_, _, _)
SmoothFrom(p, i, smoothed) ==
    IF i > Len(p) - 1 THEN smoothed
    ELSE LET prev == smoothed[Len(smoothed)]
             curr == p[i]
             next == p[i + 1]
             dx1 == Sign(curr.x - prev.x)
             dy1 == Sign(curr.y - prev.y)
             dx2 == Sign(next.x - curr.x)
             dy2 == Sign(next.y - curr.y)
         IN IF SameDirection(dx1, dy1, dx2, dy2)
            THEN SmoothFrom(p, i + 1, smoothed)
            ELSE SmoothFrom(p, i + 1, Append(smoothed, curr))

smoothPath(p) ==
    IF Len(p) < 3 THEN p
    ELSE Append(SmoothFrom(p, 2, << p[1] >>), p[Len(p)])

(***************************************************************************)
(* Inputs of findPath.                                                     *)
(***************************************************************************)
Width == GridW * GRID_SIZE
Height == GridH * GRID_SIZE

\* coordinates on the grid and halfway between grid lines
Xs == { i * (GRID_SIZE \div 2) : i \in 0..(2 * GridW) }
Ys == { i * (GRID_SIZE \div 2) : i \in 0..(2 * GridH) }
Points == { Point(px, py) : px \in Xs, py \in Ys }

Rect(rx, ry, w, h) == [x |-> rx, y |-> ry, width |-> w, height |-> h]

\* no obstacle; a block at the top with a free row below it; a small block
\* in the middle; a wall that cuts the canvas in two; two blocks that leave
\* an S-shaped corridor
ObstacleLists ==
    { <<>>,
      << Rect(30, 0, 20, 20) >>,
      << Rect(30, 30, 0, 0) >>,
      << Rect(40, 20, 0, 20) >>,
      << Rect(30, 0, 0, 10), Rect(70, 50, 0, 10) >> }

(***************************************************************************)
(* findPath, one loop iteration per step, and the grid renderer's use of   *)
(* its result (SVGLines, lines 68-75).                                     *)
(***************************************************************************)
InitPath ==
    /\ pc = "search"
    /\ start \in Points
    /\ end \in Points
    /\ obstacles \in ObstacleLists
    /\ canvasBounds = [width |-> Width, height |-> Height]
    /\ openList = << createNode(Snap(start.x), Snap(start.y)) >>
    /\ closedList = {}
    /\ spliced = <<>>
    /\ pathPoints = <<>>
    /\ smoothedPath = <<>>
    /\ IdleSmooth
    /\ IdleParse
    /\ IdleDiagram
    /\ IdleApp
    /\ IdleSplit

\* one iteration of the while loop that does not return (lines 43-97)
Expand ==
    /\ pc = "search"
    /\ openList # <<>>
    /\ LET currentIndex == LowestF(openList)
           current == openList[currentIndex]
       IN /\ ~GoalReached(current, endNode)
          /\ closedList' = closedList \cup { Key(current) }
          /\ spliced' = Append(spliced, Key(current))
          /\ openList' = VisitNeighbors(Splice(openList, currentIndex),
                                        Neighbors(current), 1, current,
                                        closedList')
    /\ UNCHANGED <<pc, start, end, obstacles, canvasBounds, pathPoints,
                   smoothedPath>>
    /\ UNCHANGED <<smoothVars, parseVars, diagramVars, appVars, splitVars>>

\* the iteration whose current node passes the goal test (lines 55-57)
ReturnPath ==
    /\ pc = "search"
    /\ openList # <<>>
    /\ LET current == openList[LowestF(openList)]
       IN /\ GoalReached(current, endNode)
          /\ pathPoints' = reconstructPath(current)
    /\ pc' = "found"
    /\ UNCHANGED <<start, end, obstacles, canvasBounds, openList, closedList,
                   spliced, smoothedPath>>
    /\ UNCHANGED <<smoothVars, parseVars, diagramVars, appVars, splitVars>>

\* the open list is empty: return the direct line (line 100)
ReturnDirect ==
    /\ pc = "search"
    /\ openList = <<>>
    /\ pathPoints' = DirectLine(start, end)
    /\ pc' = "direct"
    /\ UNCHANGED <<start, end, obstacles, canvasBounds, openList, closedList,
                   spliced, smoothedPath>>
    /\ UNCHANGED <<smoothVars, parseVars, diagramVars, appVars, splitVars>>

\* SVGLines line 70
RenderSmooth ==
    /\ pc \in {"found", "direct"}
    /\ smoothedPath' = smoothPath(pathPoints)
    /\ pc' = IF pc = "found" THEN "foundSmoothed" ELSE "directSmoothed"
    /\ UNCHANGED <<start, end, obstacles, canvasBounds, openList, closedList,
                   spliced, pathPoints>>
    /\ UNCHANGED <<smoothVars, parseVars, diagramVars, appVars, splitVars>>

\* SVGLines lines 73-75: the last point becomes a copy of toPoint
Reanchor(sp, toPoint) ==
    IF Len(sp) > 0 THEN [sp EXCEPT ![Len(sp)] = toPoint] ELSE sp

RenderAnchor ==
    /\ pc \in {"foundSmoothed", "directSmoothed"}
    /\ smoothedPath' = Reanchor(smoothedPath, end)
    /\ pc' = IF pc = "foundSmoothed" THEN "foundRendered" ELSE "directRendered"
    /\ UNCHANGED <<start, end, obstacles, canvasBounds, openList, closedList,
                   spliced, pathPoints>>
    /\ UNCHANGED <<smoothVars, parseVars, diagramVars, appVars, splitVars>>

NextPath == Expand \/ ReturnPath \/ ReturnDirect \/ RenderSmooth \/ RenderAnchor

Spec == InitPath /\ [][NextPath]_vars

\* points on the left, the middle and the right of the canvas, on and off the
\* grid, for the runs checked to their end
TermPoints ==
    { p \in Points : /\ p.x \in {0, 30, Width}
                     /\ p.y \in {10, Height} }

InitTerm ==
    /\ InitPath
    /\ start \in TermPoints
    /\ end \in TermPoints

\* findPath is synchronous: once called, its loop keeps running
SpecFair == InitTerm /\ [][NextPath]_vars /\ WF_vars(NextPath)

(***************************************************************************)
(* smoothPath applied to an arbitrary point sequence, then to its own      *)
(* result.                                                                 *)
(***************************************************************************)
Coords == {0, 1, 2}
SmoothPoints == { Point(px, py) : px \in Coords, py \in Coords }

InitSmooth ==
    /\ pc = "smooth0"
    /\ path \in SeqsUpTo(SmoothPoints, MaxLen)
    /\ once = <<>>
    /\ twice = <<>>
    /\ IdlePath
    /\ IdleParse
    /\ IdleDiagram
    /\ IdleApp
    /\ IdleSplit

SmoothOnce ==
    /\ pc = "smooth0"
    /\ once' = smoothPath(path)
    /\ pc' = "smooth1"
    /\ UNCHANGED <<path, twice>>
    /\ UNCHANGED <<pathVars, parseVars, diagramVars, appVars, splitVars>>

SmoothTwice ==
    /\ pc = "smooth1"
    /\ twice' = smoothPath(once)
    /\ pc' = "smooth2"
    /\ UNCHANGED <<path, once>>
    /\ UNCHANGED <<pathVars, parseVars, diagramVars, appVars, splitVars>>

NextSmooth == SmoothOnce \/ SmoothTwice

SpecSmooth == InitSmooth /\ [][NextSmooth]_vars

(***************************************************************************)
(* Text.  A text is a string; Ch(s, i) is its i-th character (1-based).    *)
(***************************************************************************)
LowerAlpha == "abcdefghijklmnopqrstuvwxyz"
UpperAlpha == "ABCDEFGHIJKLMNOPQRSTUVWXYZ"
DigitChars == "0123456789"

Ch(s, i) == SubSeq(s, i, i)
CharsOf(s) == { Ch(s, i) : i \in 1..Len(s) }
From(s, i) == SubSeq(s, i, Len(s))

\* position of character c in alphabet a, 0 when it is not there
IndexIn(c, a) ==
    IF \E i \in 1..Len(a) : Ch(a, i) = c
    THEN CHOOSE i \in 1..Len(a) : Ch(a, i) = c
    ELSE 0

UpperChar(c) ==
    LET i == IndexIn(c, LowerAlpha) IN IF i = 0 THEN c ELSE Ch(UpperAlpha, i)
LowerChar(c) ==
    LET i == IndexIn(c, UpperAlpha) IN IF i = 0 THEN c ELSE Ch(LowerAlpha, i)

\* the text made of the characters of the sequence cs, joined by halves
RECURSIVE Str(_)
Str(cs) ==
    IF Len(cs) = 0 THEN ""
    ELSE IF Len(cs) = 1 THEN cs[1]
    ELSE LET h == Len(cs) \div 2
         IN Str(SubSeq(cs, 1, h)) \o Str(SubSeq(cs, h + 1, Len(cs)))

Indices(s) == [i \in 1..Len(s) |-> i]
Least(S) == CHOOSE i \in S : \A j \in S : i <= j
Greatest(S) == CHOOSE i \in S : \A j \in S : j <= i

\* String.prototype.toUpperCase / toLowerCase
toUpperCase(s) == Str([i \in 1..Len(s) |-> UpperChar(Ch(s, i))])
toLowerCase(s) == Str([i \in 1..Len(s) |-> LowerChar(Ch(s, i))])

\* the regular-expression classes \s, \w and \d
SpaceChars == {" ", "\t", "\n", "\r"}
WordChars == CharsOf(LowerAlpha) \cup CharsOf(UpperAlpha) \cup CharsOf(DigitChars) \cup {"_"}
IsSpace(c) == c \in SpaceChars
IsDigit(c) == c \in CharsOf(DigitChars)

\* index just past the longest run of spaces (\s*), word characters (\w*) or
\* digits (\d*) that starts at i
SkipRun(s, i, class) ==
    Least({ j \in i..(Len(s) + 1) : j = Len(s) + 1 \/ Ch(s, j) \notin class })
SkipSpaces(s, i) == SkipRun(s, i, SpaceChars)
SkipWord(s, i) == SkipRun(s, i, WordChars)
SkipDigits(s, i) == SkipRun(s, i, CharsOf(DigitChars))

\* \s+, \w+ and \d+ at i: the index just past the run, 0 when the run is
\* empty or i is 0 (an earlier part of the pattern did not match)
Spaces1(s, i) == IF i = 0 \/ SkipSpaces(s, i) = i THEN 0 ELSE SkipSpaces(s, i)
Word1(s, i) == IF i = 0 \/ SkipWord(s, i) = i THEN 0 ELSE SkipWord(s, i)
Digits1(s, i) == IF i = 0 \/ SkipDigits(s, i) = i THEN 0 ELSE SkipDigits(s, i)
Spaces0(s, i) == IF i = 0 THEN 0 ELSE SkipSpaces(s, i)

\* the literal lit at i, letter case ignored (the i flag): the index just
\* past it, 0 when it is not there
Lit(s, i, lit) ==
    IF i = 0 \/ i + Len(lit) - 1 > Len(s) THEN 0
    ELSE IF \A k \in 1..Len(lit) : UpperChar(Ch(s, i + k - 1)) = UpperChar(Ch(lit, k))
         THEN i + Len(lit)
         ELSE 0

\* String.prototype.startsWith and includes (case-sensitive)
startsWith(s, prefix) ==
    Len(prefix) <= Len(s) /\ SubSeq(s, 1, Len(prefix)) = prefix
includes(s, sub) ==
    \E i \in 1..(Len(s) - Len(sub) + 1) : SubSeq(s, i, i + Len(sub) - 1) = sub

\* index of the first occurrence of character c at or after i, 0 if none
IndexOfFrom(s, c, i) ==
    LET at == { j \in i..Len(s) : Ch(s, j) = c }
    IN IF at = {} THEN 0 ELSE Least(at)

\* index of the first occurrence of the text sub at or after i, 0 if none
IndexOfText(s, sub, i) ==
    LET at == { j \in i..(Len(s) - Len(sub) + 1) : SubSeq(s, j, j + Len(sub) - 1) = sub }
    IN IF at = {} THEN 0 ELSE Least(at)

\* String.prototype.trim
trim(s) ==
    LET inked == { j \in 1..Len(s) : ~IsSpace(Ch(s, j)) }
    IN IF inked = {} THEN "" ELSE SubSeq(s, Least(inked), Greatest(inked))

\* s.replace(/"/g, '')
RemoveQuotes(s) ==
    LET Kept(i) == Ch(s, i) # "\""
    IN Str([k \in 1..Len(SelectSeq(Indices(s), Kept)) |->
               Ch(s, SelectSeq(Indices(s), Kept)[k])])

\* s.split(','): the pieces between commas, empty pieces included
RECURSIVE SplitAtCommas(_, _)
SplitAtCommas(s, i) ==
    LET c == IndexOfFrom(s, ",", i)
    IN IF c = 0 THEN << SubSeq(s, i, Len(s)) >>
       ELSE << SubSeq(s, i, c - 1) >> \o SplitAtCommas(s, c + 1)

(***************************************************************************)
(* parseSQL: the clean-up of the text (lines 15-19).                       *)
(***************************************************************************)
\* .replace(/\/\*[\s\S]*?\*\//g, ''): every block comment that is closed,
\* one comment per recursion
RECURSIVE StripBlockComments(_, _)
StripBlockComments(s, i) ==
    LET open == IndexOfText(s, "/*", i)
        close == IF open = 0 THEN 0 ELSE IndexOfText(s, "*/", open + 2)
    IN IF close = 0 THEN From(s, i)
       ELSE SubSeq(s, i, open - 1) \o StripBlockComments(s, close + 2)

\* .replace(/--.*$/gm, ''): from -- to the end of the line, one comment per
\* recursion
EndOfLine(s, i) ==
    Least({ j \in i..(Len(s) + 1) : j = Len(s) + 1 \/ Ch(s, j) \in {"\n", "\r"} })
RECURSIVE StripLineComments(_, _)
StripLineComments(s, i) ==
    LET dashes == IndexOfText(s, "--", i)
    IN IF dashes = 0 THEN From(s, i)
       ELSE SubSeq(s, i, dashes - 1) \o StripLineComments(s, EndOfLine(s, dashes))

\* .replace(/\s+/g, ' '): every run of white space becomes one space: the
\* first character of a run is kept, as a space, and the rest of it dropped
CollapseSpaces(s) ==
    LET Kept(i) == ~IsSpace(Ch(s, i)) \/ i = 1 \/ ~IsSpace(Ch(s, i - 1))
        kept == SelectSeq(Indices(s), Kept)
    IN Str([k \in 1..Len(kept) |->
               IF IsSpace(Ch(s, kept[k])) THEN " " ELSE Ch(s, kept[k])])

cleanedSQL(text) ==
    trim(CollapseSpaces(StripLineComments(StripBlockComments(text, 1), 1)))

(***************************************************************************)
(* parseSQL: finding the CREATE TABLE statements (lines 22-27).            *)
(***************************************************************************)
NoMatch == [ok |-> FALSE]

\* (\w+)\s*\(([^;]+)\);?  at k.  [^;]+ runs to the next semicolon or to the
\* end of the text and gives back characters until a ")" follows it, so the
\* body ends at the last ")" before that semicolon.
MatchNameAndBody(s, k) ==
    LET w == Word1(s, k)
        p == Spaces0(s, w)
    IN IF w = 0 \/ p > Len(s) \/ Ch(s, p) # "(" THEN NoMatch
       ELSE LET semi == IndexOfFrom(s, ";", p + 1)
                limit == IF semi = 0 THEN Len(s) ELSE semi - 1
                closers == { j \in (p + 2)..limit : Ch(s, j) = ")" }
            IN IF closers = {} THEN NoMatch
               ELSE LET q == CHOOSE j \in closers : \A j2 \in closers : j2 <= j
                    IN [ok |-> TRUE,
                        tableName |-> SubSeq(s, k, w - 1),
                        columnsText |-> SubSeq(s, p + 1, q - 1),
                        lastIndex |-> IF q + 1 <= Len(s) /\ Ch(s, q + 1) = ";"
                                      THEN q + 2 ELSE q + 1]

\* /CREATE\s+TABLE\s+(?:IF\s+NOT\s+EXISTS\s+)?(\w+)\s*\(([^;]+)\);?/i at i
MatchCreateTable(s, i) ==
    LET d == Spaces1(s, Lit(s, Spaces1(s, Lit(s, i, "CREATE")), "TABLE"))
        g == Spaces1(s, Lit(s, Spaces1(s, Lit(s, Spaces1(s, Lit(s, d, "IF")),
                                                  "NOT")), "EXISTS"))
    IN IF d = 0 THEN NoMatch
       ELSE IF g # 0 /\ MatchNameAndBody(s, g).ok THEN MatchNameAndBody(s, g)
       ELSE MatchNameAndBody(s, d)

\* createTableRegex.exec from lastIndex: the leftmost match at or after from
ExecCreateTable(s, from) ==
    LET at == { i \in from..Len(s) : MatchCreateTable(s, i).ok }
    IN IF at = {} THEN NoMatch ELSE MatchCreateTable(s, Least(at))

(***************************************************************************)
(* splitColumns (lines 133-160).                                           *)
(***************************************************************************)
\* the value of depth when the loop reaches character i: the "(" before it
\* less the ")" before it
DepthAt(columnsText, i) ==
    Cardinality({ j \in 1..(i - 1) : Ch(columnsText, j) = "(" })
        - Cardinality({ j \in 1..(i - 1) : Ch(columnsText, j) = ")" })

\* line 147: the character at i ends the current piece. The faulty variant
\* leaves out the test of the depth.
IsSeparatorAtAnyDepth(columnsText, i) == Ch(columnsText, i) = ","
IsSeparator(columnsText, i) ==
    Ch(columnsText, i) = "," /\ DepthAt(columnsText, i) = 0

\* the loop from character i on with current empty, one piece per recursion:
\* current collects the characters up to the next separator
RECURSIVE SplitLoop(_, _, _)
SplitLoop(columnsText, i, columns) ==
    LET seps == { j \in i..Len(columnsText) : IsSeparator(columnsText, j) }
    IN IF seps = {}
       THEN IF trim(From(columnsText, i)) # ""
            THEN Append(columns, trim(From(columnsText, i)))
            ELSE columns
       ELSE SplitLoop(columnsText, Least(seps) + 1,
                      Append(columns, trim(SubSeq(columnsText, i, Least(seps) - 1))))

splitColumns(columnsText) == SplitLoop(columnsText, 1, <<>>)

(***************************************************************************)
(* parseSQL: the clauses of one statement (lines 38-114).                  *)
(***************************************************************************)
\* String.prototype.match without the g flag: the leftmost match, matches[j]
\* being what the pattern matches at position j
Search(matches) ==
    LET at == { j \in DOMAIN matches : matches[j].ok }
    IN IF at = {} THEN NoMatch ELSE matches[Least(at)]

\* /PRIMARY\s+KEY\s*\(([^)]+)\)/i at i
MatchPrimaryKey(s, i) ==
    LET p == Spaces0(s, Lit(s, Spaces1(s, Lit(s, i, "PRIMARY")), "KEY"))
    IN IF p = 0 \/ p > Len(s) \/ Ch(s, p) # "(" THEN NoMatch
       ELSE LET q == IndexOfFrom(s, ")", p + 1)
            IN IF q = 0 \/ q = p + 1 THEN NoMatch
               ELSE [ok |-> TRUE, list |-> SubSeq(s, p + 1, q - 1)]

\* \s*\((\w+)\) at i: the word and the index just past the ")"
MatchParenWord(s, i) ==
    LET p == Spaces0(s, i)
        w == IF p = 0 \/ p > Len(s) \/ Ch(s, p) # "(" THEN 0 ELSE Word1(s, p + 1)
    IN IF w = 0 \/ w > Len(s) \/ Ch(s, w) # ")" THEN NoMatch
       ELSE [ok |-> TRUE, word |-> SubSeq(s, p + 1, w - 1), next |-> w + 1]

\* /FOREIGN\s+KEY\s*\((\w+)\)\s*REFERENCES\s*(\w+)\s*\((\w+)\)/i at i
MatchForeignKey(s, i) ==
    LET k == Lit(s, Spaces1(s, Lit(s, i, "FOREIGN")), "KEY")
        c == IF k = 0 THEN NoMatch ELSE MatchParenWord(s, k)
        r == IF c.ok THEN Spaces0(s, Lit(s, Spaces0(s, c.next), "REFERENCES")) ELSE 0
        w == Word1(s, r)
        t == IF w = 0 THEN NoMatch ELSE MatchParenWord(s, w)
    IN IF t.ok
       THEN [ok |-> TRUE, fkColumn |-> c.word,
             refTable |-> SubSeq(s, r, w - 1), refColumn |-> t.word]
       ELSE NoMatch

\* /REFERENCES\s+(\w+)\s*\((\w+)\)/i at i
MatchReferences(s, i) ==
    LET r == Spaces1(s, Lit(s, i, "REFERENCES"))
        w == Word1(s, r)
        t == IF w = 0 THEN NoMatch ELSE MatchParenWord(s, w)
    IN IF t.ok
       THEN [ok |-> TRUE, refTable |-> SubSeq(s, r, w - 1), refColumn |-> t.word]
       ELSE NoMatch

\* (?:\(\d+(?:,\s*\d+)?\))? at i: the index just past the size suffix, i when
\* there is none
SkipSizeSuffix(s, i) ==
    IF i > Len(s) \/ Ch(s, i) # "(" THEN i
    ELSE LET d == Digits1(s, i + 1)
             d2 == IF d # 0 /\ d <= Len(s) /\ Ch(s, d) = ","
                   THEN Digits1(s, SkipSpaces(s, d + 1)) ELSE 0
         IN IF d2 # 0 /\ d2 <= Len(s) /\ Ch(s, d2) = ")" THEN d2 + 1
            ELSE IF d # 0 /\ d <= Len(s) /\ Ch(s, d) = ")" THEN d + 1
            ELSE i

\* /^(\w+)\s+(\w+(?:\(\d+(?:,\s*\d+)?\))?)/i
MatchColumn(s) ==
    LET n == Word1(s, 1)
        t == Spaces1(s, n)
        w == Word1(s, t)
    IN IF w = 0 THEN NoMatch
       ELSE [ok |-> TRUE, colName |-> SubSeq(s, 1, n - 1),
             colType |-> SubSeq(s, t, SkipSizeSuffix(s, w) - 1)]

\* table.columns.find(c => c.name.toLowerCase() === name.toLowerCase()):
\* the index of the first such column, 0 if none
FindColumn(columns, name) ==
    IF \E i \in 1..Len(columns) : toLowerCase(columns[i].name) = toLowerCase(name)
    THEN CHOOSE i \in 1..Len(columns) :
            /\ toLowerCase(columns[i].name) = toLowerCase(name)
            /\ \A j \in 1..(i - 1) : toLowerCase(columns[j].name) # toLowerCase(name)
    ELSE 0

\* lines 47-51: mark the columns a table-level PRIMARY KEY clause names
MarkPrimaryKey(columns, idx) ==
    IF idx = 0 THEN columns ELSE [columns EXCEPT ![idx].isPrimaryKey = TRUE]

RECURSIVE MarkPrimaryKeys(_, _, _)
MarkPrimaryKeys(columns, pkColumns, k) ==
    IF k > Len(pkColumns) THEN columns
    ELSE MarkPrimaryKeys(
             MarkPrimaryKey(columns,
                            FindColumn(columns, RemoveQuotes(trim(pkColumns[k])))),
             pkColumns, k + 1)

Relationship(fromTable, fromColumn, toTable, toColumn) ==
    [id |-> fromTable \o "_" \o fromColumn \o "_" \o toTable \o "_" \o toColumn,
     fromTable |-> fromTable, fromColumn |-> fromColumn,
     toTable |-> toTable, toColumn |-> toColumn]

\* line 90
IsPrimaryKeyInline(upperDef) == includes(upperDef, "PRIMARY KEY")
\* line 91
IsForeignKeyInline(upperDef) == includes(upperDef, "REFERENCES")
\* a faulty variant of IsNullableInline: PRIMARY KEY is not looked at
IsNullableNotNullOnly(upperDef) ==
    ~includes(upperDef, "NOT NULL")
\* line 92
IsNullableInline(upperDef) ==
    ~includes(upperDef, "NOT NULL") /\ ~includes(upperDef, "PRIMARY KEY")

\* lines 87-93 and 98-103: the column of a definition that matched.  The
\* optional references of a column is a sequence of length 0 (absent) or 1.
Column(colMatch, upperDef, fkRefMatch) ==
    [name |-> colMatch.colName,
     type |-> toLowerCase(colMatch.colType),
     isPrimaryKey |-> IsPrimaryKeyInline(upperDef),
     isForeignKey |-> IF fkRefMatch.ok THEN TRUE ELSE IsForeignKeyInline(upperDef),
     isNullable |-> IsNullableInline(upperDef),
     references |-> IF fkRefMatch.ok
                    THEN << [table |-> fkRefMatch.refTable,
                             column |-> fkRefMatch.refColumn] >>
                    ELSE <<>>]

\* lines 84-113, given what the two patterns matched
ColumnMatched(tableName, acc, colMatch, upperDef, fkRefMatch) ==
    IF ~colMatch.ok THEN acc
    ELSE [columns |-> Append(acc.columns, Column(colMatch, upperDef, fkRefMatch)),
          relationships |->
              IF fkRefMatch.ok
              THEN Append(acc.relationships,
                          Relationship(tableName, colMatch.colName,
                                       fkRefMatch.refTable, fkRefMatch.refColumn))
              ELSE acc.relationships]

\* lines 82-113: a column definition
ColumnClause(tableName, trimmed, acc) ==
    ColumnMatched(tableName, acc, MatchColumn(trimmed), toUpperCase(trimmed),
                  Search([j \in 1..Len(trimmed) |-> MatchReferences(trimmed, j)]))

\* lines 45-52, given what the pattern matched
PrimaryKeyMatched(acc, pkMatch) ==
    IF pkMatch.ok
    THEN [acc EXCEPT !.columns =
              MarkPrimaryKeys(acc.columns, SplitAtCommas(pkMatch.list, 1), 1)]
    ELSE acc

\* lines 43-54: a table-level PRIMARY KEY clause
PrimaryKeyClause(trimmed, acc) ==
    PrimaryKeyMatched(acc, Search([j \in 1..Len(trimmed) |-> MatchPrimaryKey(trimmed, j)]))

\* lines 59-72, with idx the index of the column found (0: none)
ForeignKeyFound(tableName, acc, fkMatch, idx) ==
    [columns |->
         IF idx = 0 THEN acc.columns
         ELSE [acc.columns EXCEPT
                  ![idx].isForeignKey = TRUE,
                  ![idx].references = << [table |-> fkMatch.refTable,
                                          column |-> fkMatch.refColumn] >>],
     relationships |->
         Append(acc.relationships,
                Relationship(tableName, fkMatch.fkColumn,
                             fkMatch.refTable, fkMatch.refColumn))]

\* lines 58-73, given what the pattern matched
ForeignKeyMatched(tableName, acc, fkMatch) ==
    IF ~fkMatch.ok THEN acc
    ELSE ForeignKeyFound(tableName, acc, fkMatch,
                         FindColumn(acc.columns, fkMatch.fkColumn))

\* lines 56-75: a table-level FOREIGN KEY clause
ForeignKeyClause(tableName, trimmed, acc) ==
    ForeignKeyMatched(tableName, acc, Search([j \in 1..Len(trimmed) |-> MatchForeignKey(trimmed, j)]))

\* lines 39-113: one clause of the statement, by its first words
Clause(tableName, colDef, acc) ==
    LET trimmed == trim(colDef)
        upper == toUpperCase(trimmed)
    IN IF trimmed = "" THEN acc
       ELSE IF startsWith(upper, "PRIMARY KEY") THEN PrimaryKeyClause(trimmed, acc)
       ELSE IF startsWith(upper, "FOREIGN KEY") THEN ForeignKeyClause(tableName, trimmed, acc)
       ELSE IF startsWith(upper, "CONSTRAINT") THEN acc
       ELSE ColumnClause(tableName, trimmed, acc)

RECURSIVE Clauses(_, _, _, _)
Clauses(tableName, columnDefs, k, acc) ==
    IF k > Len(columnDefs) THEN acc
    ELSE Clauses(tableName, columnDefs, k + 1, Clause(tableName, columnDefs[k], acc))

RECURSIVE Statements(_, _, _, _)

\* lines 29-33 and 116: the table of a statement, acc being what its clauses
\* gave
\* a faulty variant of Table: the id is the name as written
TableIdAsWritten(match, acc) ==
    [id |-> match.tableName, name |-> match.tableName, columns |-> acc.columns]
\* lines 29-33 and the columns the clauses gave
Table(match, acc) ==
    [id |-> toLowerCase(match.tableName), name |-> match.tableName,
     columns |-> acc.columns]

\* line 116 and the next turn of the loop
TableDone(s, match, tables, acc) ==
    Statements(s, match.lastIndex, Append(tables, Table(match, acc)),
               acc.relationships)

\* lines 25-117, given what createTableRegex.exec returned
StatementMatched(s, match, tables, relationships) ==
    IF ~match.ok THEN [tables |-> tables, relationships |-> relationships]
    ELSE TableDone(s, match, tables,
                   Clauses(match.tableName, splitColumns(match.columnsText), 1,
                           [columns |-> <<>>, relationships |-> relationships]))

\* lines 25-117: the loop over the statements found
Statements(s, lastIndex, tables, relationships) ==
    StatementMatched(s, ExecCreateTable(s, lastIndex), tables, relationships)

\* lines 119-123: the optional error of a result is a sequence of length 0
\* (absent) or 1
\* a faulty variant of SqlResult: zero tables are returned without an error
SqlResultSilent(found) ==
    [tables |-> found.tables, relationships |-> found.relationships, error |-> <<>>]
\* lines 120-124
SqlResult(found) ==
    IF Len(found.tables) = 0
    THEN [tables |-> <<>>, relationships |-> <<>>,
          error |-> << "No CREATE TABLE statements found" >>]
    ELSE [tables |-> found.tables, relationships |-> found.relationships,
          error |-> <<>>]

parseSQL(text) == SqlResult(Statements(cleanedSQL(text), 1, <<>>, <<>>))

(***************************************************************************)
(* JavaScript values, as JSON.parse produces them and as the extractor     *)
(* reads them.  A value is a record tagged by its type in field t.         *)
(***************************************************************************)
JUndefined == [t |-> "undefined"]
JNull == [t |-> "null"]
JBool(b) == [t |-> "boolean", b |-> b]
JNum(n) == [t |-> "number", n |-> n]
JStr(s) == [t |-> "string", s |-> s]
JArr(a) == [t |-> "array", a |-> a]
\* the members of an object: a sequence of [k |-> key, v |-> value]
JObj(o) == [t |-> "object", o |-> o]

\* value.key: the property read.  It throws for null and undefined; a later
\* member of an object wins over an earlier one with the same key.
Throws(value) == value.t \in {"null", "undefined"}
Get(value, key) ==
    IF value.t = "object" /\ \E i \in 1..Len(value.o) : value.o[i].k = key
    THEN value.o[Greatest({ i \in 1..Len(value.o) : value.o[i].k = key })].v
    ELSE JUndefined

\* ToBoolean
Truthy(value) ==
    CASE value.t = "undefined" -> FALSE
      [] value.t = "null" -> FALSE
      [] value.t = "boolean" -> value.b
      [] value.t = "number" -> value.n # 0
      [] value.t = "string" -> value.s # ""
      [] OTHER -> TRUE

\* value !== false
IsNotFalse(value) == ~(value.t = "boolean" /\ value.b = FALSE)

\* the decimal digits of a natural number
RECURSIVE DecimalText(_)
DecimalText(n) ==
    IF n < 10 THEN Ch(DigitChars, n + 1)
    ELSE DecimalText(n \div 10) \o Ch(DigitChars, (n % 10) + 1)

\* `${value}` in a template literal; the texts of arrays and objects are
\* kept apart from every other text but not spelled out
TemplateText(value) ==
    CASE value.t = "undefined" -> "undefined"
      [] value.t = "null" -> "null"
      [] value.t = "boolean" -> IF value.b THEN "true" ELSE "false"
      [] value.t = "number" -> IF value.n < 0 THEN "-" \o DecimalText(0 - value.n)
                               ELSE DecimalText(value.n)
      [] value.t = "string" -> value.s
      [] value.t = "array" -> "[array]"
      [] OTHER -> "[object Object]"

(***************************************************************************)
(* JSON.parse on texts without escape sequences, fractions and exponents.  *)
(* A parse step yields [ok, v, next]: the value read and the index just    *)
(* past it.                                                                *)
(***************************************************************************)
JsonFail == [ok |-> FALSE]
\* JSON white space: space, tab, line feed, carriage return
SkipJsonSpaces(s, i) == SkipRun(s, i, {" ", "\t", "\n", "\r"})

\* the literal word lit at i, case-sensitive
JsonWord(s, i, lit, value) ==
    IF i + Len(lit) - 1 <= Len(s) /\ SubSeq(s, i, i + Len(lit) - 1) = lit
    THEN [ok |-> TRUE, v |-> value, next |-> i + Len(lit)]
    ELSE JsonFail

\* a string at i, which holds the opening quote
JsonString(s, i) ==
    LET close == IndexOfFrom(s, "\"", i + 1)
    IN IF close = 0 THEN JsonFail
       ELSE [ok |-> TRUE, v |-> JStr(SubSeq(s, i + 1, close - 1)), next |-> close + 1]

RECURSIVE DigitsValue(_)
DigitsValue(d) ==
    IF d = "" THEN 0
    ELSE 10 * DigitsValue(SubSeq(d, 1, Len(d) - 1)) + (IndexIn(Ch(d, Len(d)), DigitChars) - 1)

\* an integer at i: -? (0 | [1-9][0-9]*)
JsonNumber(s, i) ==
    LET neg == Ch(s, i) = "-"
        d == IF neg THEN i + 1 ELSE i
        e == IF d <= Len(s) /\ Ch(s, d) = "0" THEN d + 1 ELSE SkipDigits(s, d)
    IN IF e = d THEN JsonFail
       ELSE [ok |-> TRUE,
             v |-> JNum(IF neg THEN 0 - DigitsValue(SubSeq(s, d, e - 1))
                        ELSE DigitsValue(SubSeq(s, d, e - 1))),
             next |-> e]

RECURSIVE JsonValue(_, _)
RECURSIVE JsonElements(_, _, _)
RECURSIVE JsonMembers(_, _, _)

\* the value that starts at the first non-space character from i on
JsonValue(s, i) ==
    LET p == SkipJsonSpaces(s, i)
        c == IF p > Len(s) THEN "" ELSE Ch(s, p)
        q == SkipJsonSpaces(s, p + 1)
    IN CASE c = "{" -> IF q <= Len(s) /\ Ch(s, q) = "}"
                      THEN [ok |-> TRUE, v |-> JObj(<<>>), next |-> q + 1]
                      ELSE JsonMembers(s, q, <<>>)
         [] c = "[" -> IF q <= Len(s) /\ Ch(s, q) = "]"
                      THEN [ok |-> TRUE, v |-> JArr(<<>>), next |-> q + 1]
                      ELSE JsonElements(s, q, <<>>)
         [] c = "\"" -> JsonString(s, p)
         [] c = "t" -> JsonWord(s, p, "true", JBool(TRUE))
         [] c = "f" -> JsonWord(s, p, "false", JBool(FALSE))
         [] c = "n" -> JsonWord(s, p, "null", JNull)
         [] c = "-" \/ IsDigit(c) -> JsonNumber(s, p)
         [] OTHER -> JsonFail

\* the character at p, "" when there is none
CharAt(s, p) == IF p = 0 \/ p > Len(s) THEN "" ELSE Ch(s, p)
\* the index of the first non-space character after the value e, 0 when e
\* is no value
After(s, e) == IF e.ok THEN SkipJsonSpaces(s, e.next) ELSE 0

\* an array whose element e has just been read, p being After(s, e)
ElementRead(s, acc, e, p) ==
    IF CharAt(s, p) = "," THEN JsonElements(s, p + 1, Append(acc, e.v))
    ELSE IF CharAt(s, p) = "]"
         THEN [ok |-> TRUE, v |-> JArr(Append(acc, e.v)), next |-> p + 1]
    ELSE JsonFail
ElementValue(s, acc, e) == ElementRead(s, acc, e, After(s, e))

\* the elements of an array from i on, after those in acc
JsonElements(s, i, acc) == ElementValue(s, acc, JsonValue(s, i))

\* an object whose member key: e has just been read, p being After(s, e)
MemberRead(s, acc, key, e, p) ==
    IF CharAt(s, p) = ","
    THEN JsonMembers(s, p + 1, Append(acc, [k |-> key.v.s, v |-> e.v]))
    ELSE IF CharAt(s, p) = "}"
         THEN [ok |-> TRUE, v |-> JObj(Append(acc, [k |-> key.v.s, v |-> e.v])),
               next |-> p + 1]
    ELSE JsonFail
MemberValue(s, acc, key, e) == MemberRead(s, acc, key, e, After(s, e))
\* the value of a member after its key: a colon comes first
MemberColon(s, acc, key, colon) ==
    MemberValue(s, acc, key,
                IF CharAt(s, colon) = ":" THEN JsonValue(s, colon + 1) ELSE JsonFail)
MemberKey(s, acc, key) == MemberColon(s, acc, key, After(s, key))

\* the members of an object from i on, after those in acc
JsonMembers(s, i, acc) ==
    MemberKey(s, acc,
              IF CharAt(s, SkipJsonSpaces(s, i)) = "\""
              THEN JsonString(s, SkipJsonSpaces(s, i)) ELSE JsonFail)

\* JSON.parse(text): throws (ok = FALSE) unless the text is one value with
\* nothing but white space around it
WholeText(text, r) ==
    IF r.ok /\ SkipJsonSpaces(text, r.next) = Len(text) + 1
    THEN [ok |-> TRUE, v |-> r.v]
    ELSE JsonFail
JSONparse(text) == WholeText(text, JsonValue(text, 1))

(***************************************************************************)
(* parseJSONSchema.                                                        *)
(***************************************************************************)
JsonError(message) ==
    [schema |-> [tables |-> <<>>, relationships |-> <<>>], error |-> << message >>]

\* for (const x of value): the values iterated, when value is iterable.
\* An array gives its elements and a string its characters.
Iterable(value) == value.t \in {"array", "string"}
Iterated(value) ==
    IF value.t = "array" THEN value.a
    ELSE [i \in 1..Len(value.s) |-> JStr(Ch(value.s, i))]

\* value.toLowerCase(): only a string has the method
HasToLowerCase(value) == value.t = "string"

\* line 46: colData.primaryKey || false
PrimaryKeyOf(colData) ==
    IF Truthy(Get(colData, "primaryKey")) THEN Get(colData, "primaryKey")
    ELSE JBool(FALSE)
\* line 47
ForeignKeyOf(colData) == Truthy(Get(colData, "foreignKey"))
\* a faulty variant of NullableOf: nullable only when the entry says so
NullableOfOnlyTrue(colData) ==
    Get(colData, "nullable").t = "boolean" /\ Get(colData, "nullable").b
\* line 48
NullableOf(colData) == IsNotFalse(Get(colData, "nullable"))

\* lines 43-66: one column entry, which is neither null nor undefined.  The
\* fields name, type and isPrimaryKey hold JavaScript values; the optional
\* references is a sequence of length 0 (absent) or 1.
JsonColumn(tableData, colData, acc) ==
    LET fk == Get(colData, "foreignKey")
        column == [name |-> Get(colData, "name"),
                   type |-> Get(colData, "type"),
                   isPrimaryKey |-> PrimaryKeyOf(colData),
                   isForeignKey |-> ForeignKeyOf(colData),
                   isNullable |-> NullableOf(colData),
                   references |-> IF Truthy(fk)
                                  THEN << [table |-> Get(fk, "table"),
                                           column |-> Get(fk, "column")] >>
                                  ELSE <<>>]
        relationship ==
            [id |-> TemplateText(Get(tableData, "name")) \o "_"
                        \o TemplateText(Get(colData, "name")) \o "_"
                        \o TemplateText(Get(fk, "table")) \o "_"
                        \o TemplateText(Get(fk, "column")),
             fromTable |-> Get(tableData, "name"),
             fromColumn |-> Get(colData, "name"),
             toTable |-> Get(fk, "table"),
             toColumn |-> Get(fk, "column")]
    IN [ok |-> TRUE,
        columns |-> Append(acc.columns, column),
        relationships |-> IF Truthy(fk) THEN Append(acc.relationships, relationship)
                          ELSE acc.relationships]

\* lines 42-67: the loop over the column entries; ok = FALSE when an entry
\* makes the code throw
RECURSIVE JsonColumns(_, _, _, _)
JsonColumns(tableData, cols, k, acc) ==
    IF k > Len(cols) THEN acc
    ELSE IF Throws(cols[k]) THEN [ok |-> FALSE]
    ELSE JsonColumns(tableData, cols, k + 1, JsonColumn(tableData, cols[k], acc))

RECURSIVE JsonTables(_, _, _, _)

\* lines 36-40 and 69, acc being what the column entries gave
JsonTable(tableData, acc) ==
    [id |-> toLowerCase(Get(tableData, "name").s),
     name |-> Get(tableData, "name").s,
     columns |-> acc.columns]

\* line 69 and the next turn of the loop
JsonTableDone(entries, k, tables, acc) ==
    IF ~acc.ok THEN [ok |-> FALSE]
    ELSE JsonTables(entries, k + 1, Append(tables, JsonTable(entries[k], acc)),
                    acc.relationships)

\* lines 35-70: the loop over the table entries
JsonTables(entries, k, tables, relationships) ==
    IF k > Len(entries)
    THEN [ok |-> TRUE, tables |-> tables, relationships |-> relationships]
    ELSE IF Throws(entries[k]) THEN [ok |-> FALSE]
    ELSE IF ~HasToLowerCase(Get(entries[k], "name")) THEN [ok |-> FALSE]
    ELSE IF ~Iterable(Get(entries[k], "columns")) THEN [ok |-> FALSE]
    ELSE JsonTableDone(entries, k, tables,
                       JsonColumns(entries[k], Iterated(Get(entries[k], "columns")), 1,
                                   [ok |-> TRUE, columns |-> <<>>,
                                    relationships |-> relationships]))

\* lines 72-78: the result, built being what the loop gave
JsonResult(built) ==
    IF ~built.ok THEN JsonError("JSON parse error")
    ELSE [schema |-> [tables |-> built.tables, relationships |-> built.relationships],
          error |-> <<>>]

\* lines 26-78, parsed being what JSON.parse gave
JsonParsed(parsed) ==
    IF ~parsed.ok THEN JsonError("JSON parse error")
    ELSE IF Throws(parsed.v) THEN JsonError("JSON parse error")
    ELSE IF ~Truthy(Get(parsed.v, "tables")) \/ Get(parsed.v, "tables").t # "array"
         THEN JsonError("Invalid JSON: missing tables array")
    ELSE JsonResult(JsonTables(Get(parsed.v, "tables").a, 1, <<>>, <<>>))

parseJSONSchema(text) == JsonParsed(JSONparse(text))

(***************************************************************************)
(* Inputs of the extractors.  A clause is written once, with what it is:   *)
(* kind says how it is meant (a column definition or a table-level         *)
(* clause), inlinePK and notNull say whether a column definition carries   *)
(* PRIMARY KEY and NOT NULL.                                               *)
(***************************************************************************)
SqlClause(text, kind, inlinePK, notNull) ==
    [text |-> text, kind |-> kind, inlinePK |-> inlinePK, notNull |-> notNull]

SqlClauseSet ==
    { SqlClause("id uuid PRIMARY KEY", "column", TRUE, FALSE),
      SqlClause("Code VARCHAR(10) primary  key NOT NULL", "column", TRUE, TRUE),
      SqlClause("id int", "column", FALSE, FALSE),
      SqlClause("name text NOT NULL", "column", FALSE, TRUE),
      SqlClause("user_id uuid REFERENCES users(id)", "column", FALSE, FALSE),
      SqlClause("preferences jsonb", "column", FALSE, FALSE),
      SqlClause("PRIMARY KEY (ID)", "primaryKey", FALSE, FALSE),
      SqlClause("FOREIGN KEY (id) REFERENCES users(id)", "foreignKey", FALSE, FALSE),
      SqlClause("tag MyType", "column", FALSE, FALSE),
      SqlClause("oops", "malformed", FALSE, FALSE) }

\* statements of three clauses in which two columns have the same name
SqlDuplicateColumns ==
    { << SqlClause("id int", "column", FALSE, FALSE),
         SqlClause("id int", "column", FALSE, FALSE),
         SqlClause("PRIMARY KEY (ID)", "primaryKey", FALSE, FALSE) >>,
      << SqlClause("id int", "column", FALSE, FALSE),
         SqlClause("name text NOT NULL", "column", FALSE, TRUE),
         SqlClause("PRIMARY KEY (ID)", "primaryKey", FALSE, FALSE) >>,
      << SqlClause("id int", "column", FALSE, FALSE),
         SqlClause("id int", "column", FALSE, FALSE),
         SqlClause("FOREIGN KEY (id) REFERENCES users(id)", "foreignKey", FALSE, FALSE) >> }

\* the clauses joined by ", "
RECURSIVE JoinClauses(_, _)
JoinClauses(clauses, k) ==
    IF k > Len(clauses) THEN ""
    ELSE clauses[k].text \o (IF k < Len(clauses) THEN ", " ELSE "")
             \o JoinClauses(clauses, k + 1)

SqlStatement(clauses, semicolon) ==
    "CREATE TABLE Orders (\n  " \o JoinClauses(clauses, 1) \o "\n)" \o semicolon

\* what may follow the statement: nothing, or a second statement
SqlTails ==
    { "", " CREATE TABLE users (id uuid PRIMARY KEY);",
      "\ncreate table if not exists Audit_Log(msg text)" }

\* texts in which parseSQL finds no CREATE TABLE statement
SqlOddTexts ==
    { "", "select 1;", "CREATE TABLE t (x int", "CREATE TABLE (x int);",
      "CREATE TABLE t ();", "-- CREATE TABLE t (x int);",
      "/* CREATE TABLE t (x int); */", "DROP TABLE t; create view v (x)" }

JsonColumnSet ==
    { "{\"name\":\"id\",\"type\":\"int4\",\"primaryKey\":true}",
      "{\"name\":\"id\",\"type\":\"int4\",\"primaryKey\":true,\"nullable\":false}",
      "{\"name\":\"title\",\"type\":\"text\"}",
      "{\"name\":\"title\",\"type\":\"text\",\"nullable\":false}",
      "{\"name\":\"user_id\",\"type\":\"uuid\",\"foreignKey\":{\"table\":\"users\",\"column\":\"id\"}}",
      "{\"name\":\"owner\",\"type\":\"uuid\",\"foreignKey\":true}" }

RECURSIVE JoinTexts(_, _)
JoinTexts(texts, k) ==
    IF k > Len(texts) THEN ""
    ELSE texts[k] \o (IF k < Len(texts) THEN "," ELSE "") \o JoinTexts(texts, k + 1)

JsonDocument(columns) ==
    "{\"tables\":[{\"name\":\"Orders\",\"columns\":[" \o JoinTexts(columns, 1) \o "]}]}"

\* other texts: those that are not JSON, those that decode to a document
\* without a tables array, those in which a table or column entry has the
\* wrong shape, and a document of no tables
JsonOddTexts ==
    [invalid |->
         { "", "{",
           "{\"tables\":[{\"name\":\"a\",\"columns\":[{\"name\":\"x\",\"type\":\"int4\"},]}]}" },
     noTables |-> { "null", "5", "{}", "{\"tables\":5}", "{\"tables\":{\"name\":\"a\"}}" },
     wrongShape |->
         { "{\"tables\":[{\"name\":\"a\"}]}",
           "{\"tables\":[{\"name\":\"a\",\"columns\":[null]}]}",
           "{\"tables\":[{\"name\":\"a\",\"columns\":[]},null]}",
           "{\"tables\":[5]}",
           "{\"tables\":[{\"name\":5,\"columns\":[]}]}",
           "{\"tables\":[{\"name\":\"a\",\"columns\":[5]}]}",
           "{\"tables\":[{\"name\":\"a\",\"columns\":\"ab\"}]}" },
     empty |-> { "{\"tables\":[]}" }]

(***************************************************************************)
(* One call of parseSQL or of parseJSONSchema.                             *)
(***************************************************************************)
InitParse ==
    /\ pc \in {"sql", "json"}
    /\ sqlClauses \in IF pc = "sql"
                      THEN SeqsUpTo(SqlClauseSet, MaxClauses) \cup SqlDuplicateColumns
                      ELSE {<<>>}
    /\ sql \in IF pc = "sql" /\ sqlClauses # <<>>
               THEN { SqlStatement(sqlClauses, semi) \o tail :
                          semi \in {"", ";"}, tail \in SqlTails }
               ELSE IF pc = "sql" THEN SqlOddTexts
               ELSE {""}
    /\ jsonColumns \in IF pc = "json" THEN SeqsUpTo(JsonColumnSet, MaxClauses)
                       ELSE {<<>>}
    /\ json \in IF pc = "json"
                THEN {JsonDocument(jsonColumns)}
                         \cup (IF jsonColumns = <<>>
                               THEN JsonOddTexts.invalid \cup JsonOddTexts.noTables
                                        \cup JsonOddTexts.wrongShape
                                        \cup JsonOddTexts.empty
                               ELSE {})
                ELSE {""}
    /\ sqlResult = <<>>
    /\ jsonResult = <<>>
    /\ IdlePath
    /\ IdleSmooth
    /\ IdleDiagram
    /\ IdleApp
    /\ IdleSplit

ParseSQL ==
    /\ pc = "sql"
    /\ sqlResult' = parseSQL(sql)
    /\ pc' = "sqlParsed"
    /\ UNCHANGED <<sql, sqlClauses, json, jsonColumns, jsonResult>>
    /\ UNCHANGED <<pathVars, smoothVars, diagramVars, appVars, splitVars>>

ParseJSON ==
    /\ pc = "json"
    /\ jsonResult' = parseJSONSchema(json)
    /\ pc' = "jsonParsed"
    /\ UNCHANGED <<sql, sqlClauses, json, jsonColumns, sqlResult>>
    /\ UNCHANGED <<pathVars, smoothVars, diagramVars, appVars, splitVars>>

NextParse == ParseSQL \/ ParseJSON

SpecParse == InitParse /\ [][NextParse]_vars

(***************************************************************************)
(* The diagram state as JavaScript values: the schema the App keeps after  *)
(* a parse, and the positions it lays the tables out at.                   *)
(***************************************************************************)
\* an object literal: the given keys with the given values, in that order
Object(keys, values) ==
    JObj([i \in 1..Len(keys) |-> [k |-> keys[i], v |-> values[i]]])

\* a Column object: its five fields, and references once it was assigned
ColumnValue(name, type, isPrimaryKey, c, references) ==
    JObj(Object(<<"name", "type", "isPrimaryKey", "isForeignKey", "isNullable">>,
                <<name, type, isPrimaryKey, JBool(c.isForeignKey),
                  JBool(c.isNullable)>>).o
             \o [i \in 1..Len(references) |->
                     [k |-> "references",
                      v |-> Object(<<"table", "column">>,
                                   <<references[i].table, references[i].column>>)]])
\* the Column objects parseSQL builds: every field is a string or a boolean
SqlColumnValue(c) ==
    ColumnValue(JStr(c.name), JStr(c.type), JBool(c.isPrimaryKey), c,
                [i \in 1..Len(c.references) |->
                     [table |-> JStr(c.references[i].table),
                      column |-> JStr(c.references[i].column)]])
\* the Column objects parseJSONSchema builds: name, type, isPrimaryKey and
\* the references are whatever the document held
JsonColumnValue(c) ==
    ColumnValue(c.name, c.type, c.isPrimaryKey, c, c.references)

\* a Table object, columns being its Column objects
TableValue(table, columns) ==
    Object(<<"id", "name", "columns">>,
           <<JStr(table.id), JStr(table.name), JArr(columns)>>)

RelationshipValue(id, fromTable, fromColumn, toTable, toColumn) ==
    Object(<<"id", "fromTable", "fromColumn", "toTable", "toColumn">>,
           <<JStr(id), fromTable, fromColumn, toTable, toColumn>>)

\* App, handleParseSQL: { tables: result.tables, relationships: ... }
SqlSchema(result) ==
    Object(<<"tables", "relationships">>,
           << JArr([i \in 1..Len(result.tables) |->
                        TableValue(result.tables[i],
                                   [j \in 1..Len(result.tables[i].columns) |->
                                        SqlColumnValue(result.tables[i].columns[j])])]),
              JArr([i \in 1..Len(result.relationships) |->
                        RelationshipValue(result.relationships[i].id,
                                          JStr(result.relationships[i].fromTable),
                                          JStr(result.relationships[i].fromColumn),
                                          JStr(result.relationships[i].toTable),
                                          JStr(result.relationships[i].toColumn))]) >>)

\* App, handleParseJSON: result.schema
JsonSchema(result) ==
    Object(<<"tables", "relationships">>,
           << JArr([i \in 1..Len(result.schema.tables) |->
                        TableValue(result.schema.tables[i],
                                   [j \in 1..Len(result.schema.tables[i].columns) |->
                                        JsonColumnValue(result.schema.tables[i].columns[j])])]),
              JArr([i \in 1..Len(result.schema.relationships) |->
                        RelationshipValue(result.schema.relationships[i].id,
                                          result.schema.relationships[i].fromTable,
                                          result.schema.relationships[i].fromColumn,
                                          result.schema.relationships[i].toTable,
                                          result.schema.relationships[i].toColumn)]) >>)

\* Math.ceil(Math.sqrt(n))
CeilSqrt(n) == Least({ c \in 0..n : c * c >= n })

\* App, handleParseSQL and handleParseJSON: the grid the tables are laid out
\* on, newPositions[table.id] being assigned for one table after the other
RECURSIVE newPositions(_, _, _)
newPositions(tables, index, acc) ==
    IF index >= Len(tables) THEN JObj(acc)
    ELSE LET cols == CeilSqrt(Len(tables))
             id == Get(tables[index + 1], "id").s
             pos == Object(<<"x", "y">>,
                           << JNum(100 + (index % cols) * 320),
                              JNum(100 + (index \div cols) * 250) >>)
             at == { i \in 1..Len(acc) : acc[i].k = id }
         IN newPositions(tables, index + 1,
                         IF at = {} THEN Append(acc, [k |-> id, v |-> pos])
                         ELSE [acc EXCEPT ![Least(at)].v = pos])

(***************************************************************************)
(* JSON.stringify(value, null, 2), exportDiagram and importDiagram.        *)
(***************************************************************************)
\* the texts joined by a comma and a line break
JoinLines(texts) ==
    Str([i \in 1..Len(texts) |-> texts[i] \o (IF i < Len(texts) THEN ",\n" ELSE "")])

\* the members JSON.stringify writes: those whose value is not undefined
Written(members) == SelectSeq(members, LAMBDA m : m.v.t # "undefined")

\* the text of a value that sits at the indentation indent.  An undefined
\* array element is written as null; strings are written without escapes.
RECURSIVE stringify(_, _)
stringify(value, indent) ==
    CASE value.t \in {"null", "undefined"} -> "null"
      [] value.t \in {"boolean", "number"} -> TemplateText(value)
      [] value.t = "string" -> "\"" \o value.s \o "\""
      [] value.t = "array" ->
             IF value.a = <<>> THEN "[]"
             ELSE "[\n" \o JoinLines([i \in 1..Len(value.a) |->
                                          indent \o "  "
                                              \o stringify(value.a[i], indent \o "  ")])
                      \o "\n" \o indent \o "]"
      [] OTHER ->
             IF Written(value.o) = <<>> THEN "{}"
             ELSE "{\n" \o JoinLines([i \in 1..Len(Written(value.o)) |->
                                          indent \o "  \"" \o Written(value.o)[i].k
                                              \o "\": "
                                              \o stringify(Written(value.o)[i].v,
                                                           indent \o "  ")])
                      \o "\n" \o indent \o "}"

\* exportImport.ts lines 3-15
exportDiagram(diagram) ==
    stringify(Object(<<"version", "schema", "positions", "viewState">>,
                     << JStr("1.0"), diagram.schema, diagram.positions,
                        Object(<<"zoom", "pan">>, <<diagram.zoom, diagram.pan>>) >>),
              "")

\* a faulty variant of ImportParsed: viewState is not looked at
ImportParsedThreeKeys(parsed) ==
    IF ~parsed.ok \/ Throws(parsed.v)
    THEN [data |-> <<>>, error |-> << "Import error" >>]
    ELSE IF \/ ~Truthy(Get(parsed.v, "version"))
            \/ ~Truthy(Get(parsed.v, "schema"))
            \/ ~Truthy(Get(parsed.v, "positions"))
         THEN [data |-> <<>>, error |-> << "Invalid export file format" >>]
    ELSE [data |-> << parsed.v >>, error |-> <<>>]
\* exportImport.ts lines 19-28, parsed being what JSON.parse gave: the result
\* holds data or error, each a sequence of length 0 (absent) or 1
ImportParsed(parsed) ==
    IF ~parsed.ok \/ Throws(parsed.v)
    THEN [data |-> <<>>, error |-> << "Import error" >>]
    ELSE IF \/ ~Truthy(Get(parsed.v, "version"))
            \/ ~Truthy(Get(parsed.v, "schema"))
            \/ ~Truthy(Get(parsed.v, "positions"))
            \/ ~Truthy(Get(parsed.v, "viewState"))
         THEN [data |-> <<>>, error |-> << "Invalid export file format" >>]
    ELSE [data |-> << parsed.v >>, error |-> <<>>]

importDiagram(text) == ImportParsed(JSONparse(text))

(***************************************************************************)
(* The diagram states exported and the files imported.                     *)
(***************************************************************************)
\* the schema and positions of the App: as it starts, and after a parse
\* that gave no error
Parsed(schema) ==
    [schema |-> schema, positions |-> newPositions(Get(schema, "tables").a, 0, <<>>)]
SchemaStates ==
    { [schema |-> Object(<<"tables", "relationships">>, <<JArr(<<>>), JArr(<<>>)>>),
       positions |-> JObj(<<>>)] }
        \cup { Parsed(SqlSchema(parseSQL(text))) :
                   text \in { "CREATE TABLE users (id uuid PRIMARY KEY, name text NOT NULL);",
                              "CREATE TABLE Orders (id int, user_id uuid REFERENCES users(id));"
                                  \o " CREATE TABLE users (id uuid PRIMARY KEY);",
                              "CREATE TABLE a (x int); CREATE TABLE b (y int);"
                                  \o " CREATE TABLE c (z int, FOREIGN KEY (z) REFERENCES a(x));" } }
        \cup { Parsed(JsonSchema(parseJSONSchema(text))) :
                   text \in { JsonDocument(<<c>>) : c \in JsonColumnSet }
                                \cup { "{\"tables\":[{\"name\":\"a\",\"columns\":[{\"name\":\"x\"}]}]}",
                                       "{\"tables\":[{\"name\":\"a\",\"columns\":[5]}]}" } }

ZoomStates == { JNum(1), JNum(2) }
PanStates ==
    { Object(<<"x", "y">>, <<JNum(0), JNum(0)>>),
      Object(<<"x", "y">>, <<JNum(0 - 40), JNum(15)>>) }

\* the texts of files picked for import: documents that hold the four keys,
\* documents that lack one, and texts that are no document
ImportTexts ==
    [allKeys |->
         { "{\"version\":\"1.0\",\"schema\":{\"tables\":[],\"relationships\":[]},"
               \o "\"positions\":{},\"viewState\":{\"zoom\":1,\"pan\":{\"x\":0,\"y\":0}}}",
           "{\"version\":\"2\",\"schema\":5,\"positions\":\"a\",\"viewState\":true}",
           "{\"version\":1,\"schema\":[],\"positions\":[],\"viewState\":[]}",
           "{\"version\":\"\",\"schema\":{},\"positions\":{},\"viewState\":{}}",
           "{\"version\":0,\"schema\":{},\"positions\":{},\"viewState\":{}}",
           "{\"version\":\"1.0\",\"schema\":null,\"positions\":{},\"viewState\":{}}",
           "{\"version\":\"1.0\",\"schema\":{},\"positions\":null,\"viewState\":{}}",
           "{\"version\":\"1.0\",\"schema\":{},\"positions\":{},\"viewState\":false}" },
     missingKey |->
         { "{}", "{\"version\":\"1.0\"}",
           "{\"schema\":{},\"positions\":{},\"viewState\":{}}",
           "{\"version\":\"1.0\",\"positions\":{},\"viewState\":{}}",
           "{\"version\":\"1.0\",\"schema\":{},\"viewState\":{}}",
           "{\"version\":\"1.0\",\"schema\":{},\"positions\":{}}",
           "{\"tables\":[]}" },
     other |-> { "", "{", "null", "5", "[]", "\"1.0\"", "true",
                 "{\"version\":\"1.0\",\"schema\":{},\"positions\":{},\"viewState\":{}," }]

InitDiagram ==
    /\ pc \in {"diagram", "file"}
    /\ state \in IF pc = "diagram"
                 THEN { [schema |-> s.schema, positions |-> s.positions,
                         zoom |-> z, pan |-> p, selectedTableId |-> JNull] :
                            s \in SchemaStates, z \in ZoomStates, p \in PanStates }
                 ELSE {<<>>}
    /\ content \in IF pc = "file"
                   THEN ImportTexts.allKeys \cup ImportTexts.missingKey
                            \cup ImportTexts.other
                   ELSE {""}
    /\ imported = <<>>
    /\ IdlePath
    /\ IdleSmooth
    /\ IdleParse
    /\ IdleApp
    /\ IdleSplit

\* App, handleExport: the text handed to the download
Export ==
    /\ pc = "diagram"
    /\ content' = exportDiagram(state)
    /\ pc' = "exported"
    /\ UNCHANGED <<state, imported>>
    /\ UNCHANGED <<pathVars, smoothVars, parseVars, appVars, splitVars>>

\* the exported text is imported again
Reimport ==
    /\ pc = "exported"
    /\ imported' = importDiagram(content)
    /\ pc' = "reimported"
    /\ UNCHANGED <<state, content>>
    /\ UNCHANGED <<pathVars, smoothVars, parseVars, appVars, splitVars>>

\* App, handleImport: the text of a file is imported
Import ==
    /\ pc = "file"
    /\ imported' = importDiagram(content)
    /\ pc' = "imported"
    /\ UNCHANGED <<state, content>>
    /\ UNCHANGED <<pathVars, smoothVars, parseVars, appVars, splitVars>>

NextDiagram == Export \/ Reimport \/ Import

SpecDiagram == InitDiagram /\ [][NextDiagram]_vars

(***************************************************************************)
(* The App component: the values of its useState hooks, and its handlers.  *)
(* The zoom factor is held in hundredths, so that the steps of 0.1 and     *)
(* 0.25 and the limits 0.25 and 2.0 are whole numbers.                     *)
(***************************************************************************)
MIN_ZOOM == 25
MAX_ZOOM == 200

Min(a, b) == IF a <= b THEN a ELSE b
Max(a, b) == IF a >= b THEN a ELSE b

\* the values the useState hooks start from
InitialApp ==
    [schema |-> Object(<<"tables", "relationships">>, <<JArr(<<>>), JArr(<<>>)>>),
     positions |-> JObj(<<>>),
     zoom |-> JNum(100),
     pan |-> Object(<<"x", "y">>, <<JNum(0), JNum(0)>>),
     selectedTableId |-> JNull,
     error |-> JNull]

\* setError(message), with a faulty variant that clears the selection too
setErrorAndDeselect(s, message) ==
    [s EXCEPT !.error = message, !.selectedTableId = JNull]
setError(s, message) == [s EXCEPT !.error = message]

\* the end of a successful handleParseSQL or handleParseJSON: the schema is
\* replaced, the tables are laid out on a grid, the error and the selection
\* are cleared. The faulty variant keeps the selection.
setSchemaKeepSelection(s, schema) ==
    [s EXCEPT !.schema = schema,
              !.positions = newPositions(Get(schema, "tables").a, 0, <<>>),
              !.error = JNull]
setSchema(s, schema) ==
    [s EXCEPT !.schema = schema,
              !.positions = newPositions(Get(schema, "tables").a, 0, <<>>),
              !.error = JNull,
              !.selectedTableId = JNull]

\* handleParseSQL(sql), where result is parseSQL(sql)
handleParseSQL(s, result) ==
    IF result.error # <<>>
    THEN setError(s, JStr(result.error[1]))
    ELSE setSchema(s, SqlSchema(result))

\* handleParseJSON(json), where result is parseJSONSchema(json)
handleParseJSON(s, result) ==
    IF result.error # <<>>
    THEN setError(s, JStr(result.error[1]))
    ELSE setSchema(s, JsonSchema(result))

\* a number of the file as a zoom factor in hundredths
Hundredths(value) == JNum(value.n * 100)

\* handleImport after readFile has resolved, where result is
\* importDiagram(content)
Imported(s, result) ==
    IF result.error # <<>> THEN setError(s, JStr(result.error[1]))
    ELSE [s EXCEPT !.schema = Get(result.data[1], "schema"),
                   !.positions = Get(result.data[1], "positions"),
                   !.zoom = Hundredths(Get(Get(result.data[1], "viewState"), "zoom")),
                   !.pan = Get(Get(result.data[1], "viewState"), "pan"),
                   !.error = JNull,
                   !.selectedTableId = JNull]

\* { ...prev, [id]: pos }
Spread(prev, id, pos) ==
    IF \E i \in 1..Len(prev.o) : prev.o[i].k = id
    THEN JObj([i \in 1..Len(prev.o) |->
                   IF prev.o[i].k = id THEN [k |-> id, v |-> pos] ELSE prev.o[i]])
    ELSE JObj(Append(prev.o, [k |-> id, v |-> pos]))

\* handleWheel: the zoom after a step of delta, and the pan that keeps the
\* point under the cursor where it is
newZoom(zoom, delta) == Max(MIN_ZOOM, Min(MAX_ZOOM, zoom + delta))
Zoomed(from, mouse, zoom, to) == mouse - ((mouse - from) * to) \div zoom
handleWheel(s, delta, mouseX, mouseY) ==
    IF newZoom(s.zoom.n, delta) # s.zoom.n
    THEN [s EXCEPT !.pan = Object(<<"x", "y">>,
                                  << JNum(Zoomed(Get(s.pan, "x").n, mouseX, s.zoom.n,
                                                 newZoom(s.zoom.n, delta))),
                                     JNum(Zoomed(Get(s.pan, "y").n, mouseY, s.zoom.n,
                                                 newZoom(s.zoom.n, delta))) >>),
                   !.zoom = JNum(newZoom(s.zoom.n, delta))]
    ELSE s

\* the ids of the tables the canvas renders a TableCard for
TableIds(schema) ==
    { Get(Get(schema, "tables").a[i], "id") : i \in 1..Len(Get(schema, "tables").a) }

\* a TableCard is unmounted, and its drag ends, when its table leaves the schema
Mounted(card, s) == IF card # <<>> /\ card[1] \in TableIds(s.schema) THEN card ELSE <<>>

airbnbSchema ==
    "CREATE TABLE contacts (\n"
        \o "    id int4 PRIMARY KEY,\n"
        \o "    name text,\n"
        \o "    company text,\n"
        \o "    phone text,\n"
        \o "    email text,\n"
        \o "    service_type text,\n"
        \o "    user_id uuid REFERENCES auth.users(id)\n"
        \o ");\n"
        \o "\n"
        \o "CREATE TABLE properties (\n"
        \o "    id int4 PRIMARY KEY,\n"
        \o "    name text,\n"
        \o "    address text,\n"
        \o "    status text,\n"
        \o "    user_id uuid REFERENCES auth.users(id)\n"
        \o ");\n"
        \o "\n"
        \o "CREATE TABLE tasks (\n"
        \o "    id int4 PRIMARY KEY,\n"
        \o "    property_id int4 REFERENCES properties(id),\n"
        \o "    contact_id int4 REFERENCES contacts(id),\n"
        \o "    description text,\n"
        \o "    start_date text,\n"
        \o "    end_date text,\n"
        \o "    cost float4,\n"
        \o "    payment_status text,\n"
        \o "    completion_status text,\n"
        \o "    recurring text,\n"
        \o "    recurrence_interval text,\n"
        \o "    notes text,\n"
        \o "    user_id uuid REFERENCES auth.users(id)\n"
        \o ");"

\* the positions the start-up timer assigns
SamplePositions ==
    Object(<<"contacts", "properties", "tasks">>,
           << Object(<<"x", "y">>, <<JNum(600), JNum(100)>>),
              Object(<<"x", "y">>, <<JNum(900), JNum(350)>>),
              Object(<<"x", "y">>, <<JNum(350), JNum(350)>>) >>)

\* the texts typed into the input panel, each with what its parser returns
SqlInputs ==
    { [text |-> text, result |-> parseSQL(text)] :
          text \in { "CREATE TABLE Orders (id int, user_id uuid REFERENCES users(id));",
                     "CREATE TABLE users (id uuid PRIMARY KEY);"
                         \o " CREATE TABLE Orders (id int, user_id uuid REFERENCES users(id));",
                     "SELECT 1;" } }
JsonInputs ==
    { [text |-> text, result |-> parseJSONSchema(text)] :
          text \in { JsonDocument(<< "{\"name\":\"user_id\",\"type\":\"uuid\","
                                        \o "\"foreignKey\":{\"table\":\"users\",\"column\":\"id\"}}" >>),
                     "{\"name\":\"a\"}" } }

\* the files picked for import: exports of a diagram, one of them edited to a
\* zoom factor of 5, a document that lacks keys, a text that is no document,
\* and a file that cannot be read
ExportOf(tables, positions, zoom) ==
    "{\"version\":\"1.0\",\"schema\":{\"tables\":[" \o tables \o "],\"relationships\":[]},"
        \o "\"positions\":{" \o positions \o "},"
        \o "\"viewState\":{\"zoom\":" \o zoom \o ",\"pan\":{\"x\":0,\"y\":0}}}"
ImportFiles ==
    { [content |-> text, readable |-> TRUE, result |-> importDiagram(text)] :
          text \in { ExportOf("{\"id\":\"users\",\"name\":\"users\",\"columns\":[]}",
                                 "\"users\":{\"x\":40,\"y\":60}", "1"),
                        ExportOf("", "", "5"),
                        "{\"version\":\"1.0\"}" } }
        \cup { [content |-> "", readable |-> FALSE, result |-> importDiagram("")] }

\* where a drag leaves a table, and where a drag leaves the canvas
DragPoints == { Object(<<"x", "y">>, <<JNum(40), JNum(60)>>) }
PanPoints == { Object(<<"x", "y">>, <<JNum(0 - 40), JNum(20)>>) }

\* the App is rendered for the first time; the build with sample data has its
\* start-up effect to run
InitApp ==
    /\ pc = "App"
    /\ app = InitialApp
    /\ timer \in {"none", "useEffect"}
    /\ dragging = <<>>
    /\ IdlePath
    /\ IdleSmooth
    /\ IdleParse
    /\ IdleDiagram
    /\ IdleSplit

\* useEffect: the sample is parsed and the timer is started
UseEffect ==
    /\ timer = "useEffect"
    /\ app' = handleParseSQL(app, parseSQL(airbnbSchema))
    /\ timer' = "setTimeout"
    /\ UNCHANGED <<pc, dragging>>
    /\ UNCHANGED <<pathVars, smoothVars, parseVars, diagramVars, splitVars>>

\* the callback of setTimeout
Timeout ==
    /\ timer = "setTimeout"
    /\ app' = [app EXCEPT !.positions = SamplePositions]
    /\ timer' = "none"
    /\ UNCHANGED <<pc, dragging>>
    /\ UNCHANGED <<pathVars, smoothVars, parseVars, diagramVars, splitVars>>

\* the user acts on the rendered page, with the mouse free
Idle == timer # "useEffect" /\ dragging = <<>>

\* InputPanel, handleParse in SQL mode: onClearError, then onParseSQL
ParseSQLInput(input) ==
    /\ Idle
    /\ app' = handleParseSQL(setError(app, JNull), input.result)
    /\ dragging' = Mounted(dragging, app')
    /\ UNCHANGED <<pc, timer>>
    /\ UNCHANGED <<pathVars, smoothVars, parseVars, diagramVars, splitVars>>
HandleParseSQL == \E input \in SqlInputs : ParseSQLInput(input)

\* InputPanel, handleParse in JSON mode: onClearError, then onParseJSON
ParseJSONInput(input) ==
    /\ Idle
    /\ app' = handleParseJSON(setError(app, JNull), input.result)
    /\ dragging' = Mounted(dragging, app')
    /\ UNCHANGED <<pc, timer>>
    /\ UNCHANGED <<pathVars, smoothVars, parseVars, diagramVars, splitVars>>
HandleParseJSON == \E input \in JsonInputs : ParseJSONInput(input)

\* handleImport from the moment readFile resolves or rejects, some time after
\* the file was picked: what follows the await reads no state of the App
ImportFile(file) ==
    /\ timer # "useEffect"
    /\ app' = IF file.readable THEN Imported(app, file.result)
              ELSE setError(app, JStr("Failed to import file"))
    /\ dragging' = Mounted(dragging, app')
    /\ UNCHANGED <<pc, timer>>
    /\ UNCHANGED <<pathVars, smoothVars, parseVars, diagramVars, splitVars>>
HandleImport == \E file \in ImportFiles : ImportFile(file)

\* the wheel is turned with the cursor on the origin of the canvas, a place
\* where the new pan is a whole number
HandleWheel ==
    /\ timer # "useEffect"
    /\ \E delta \in {0 - 10, 10} :
       \E mouse \in {app.pan} :
           /\ ((Get(mouse, "x").n - Get(app.pan, "x").n) * newZoom(app.zoom.n, delta))
                  % app.zoom.n = 0
           /\ ((Get(mouse, "y").n - Get(app.pan, "y").n) * newZoom(app.zoom.n, delta))
                  % app.zoom.n = 0
           /\ app' = handleWheel(app, delta, Get(mouse, "x").n, Get(mouse, "y").n)
    /\ UNCHANGED <<pc, timer, dragging>>
    /\ UNCHANGED <<pathVars, smoothVars, parseVars, diagramVars, splitVars>>

\* handleMouseDown on the canvas and the mouse moves that follow
PanCanvas ==
    /\ Idle
    /\ \E point \in PanPoints : app' = [app EXCEPT !.pan = point]
    /\ UNCHANGED <<pc, timer, dragging>>
    /\ UNCHANGED <<pathVars, smoothVars, parseVars, diagramVars, splitVars>>

\* the zoom buttons
ZoomIn ==
    /\ Idle
    /\ app' = [app EXCEPT !.zoom = JNum(Min(MAX_ZOOM, app.zoom.n + 25))]
    /\ UNCHANGED <<pc, timer, dragging>>
    /\ UNCHANGED <<pathVars, smoothVars, parseVars, diagramVars, splitVars>>

ZoomOut ==
    /\ Idle
    /\ app' = [app EXCEPT !.zoom = JNum(Max(MIN_ZOOM, app.zoom.n - 25))]
    /\ UNCHANGED <<pc, timer, dragging>>
    /\ UNCHANGED <<pathVars, smoothVars, parseVars, diagramVars, splitVars>>

ZoomReset ==
    /\ Idle
    /\ app' = [app EXCEPT !.zoom = JNum(100),
                          !.pan = Object(<<"x", "y">>, <<JNum(0), JNum(0)>>)]
    /\ UNCHANGED <<pc, timer, dragging>>
    /\ UNCHANGED <<pathVars, smoothVars, parseVars, diagramVars, splitVars>>

\* TableCard, handleMouseDown: the card is selected and its drag starts
CardMouseDown ==
    /\ Idle
    /\ \E id \in TableIds(app.schema) :
           /\ app' = [app EXCEPT !.selectedTableId = id]
           /\ dragging' = <<id>>
    /\ UNCHANGED <<pc, timer>>
    /\ UNCHANGED <<pathVars, smoothVars, parseVars, diagramVars, splitVars>>

\* TableCard, onMouseMove: handlePositionChange(table.id, pos)
CardMouseMove ==
    /\ dragging # <<>>
    /\ \E pos \in DragPoints :
           app' = [app EXCEPT !.positions = Spread(app.positions, dragging[1].s, pos)]
    /\ UNCHANGED <<pc, timer, dragging>>
    /\ UNCHANGED <<pathVars, smoothVars, parseVars, diagramVars, splitVars>>

\* TableCard, onMouseUp
CardMouseUp ==
    /\ dragging # <<>>
    /\ dragging' = <<>>
    /\ UNCHANGED <<pc, app, timer>>
    /\ UNCHANGED <<pathVars, smoothVars, parseVars, diagramVars, splitVars>>

\* TableDetails, onClose
CloseDetails ==
    /\ Idle
    /\ app.selectedTableId \in TableIds(app.schema)
    /\ app' = [app EXCEPT !.selectedTableId = JNull]
    /\ UNCHANGED <<pc, timer, dragging>>
    /\ UNCHANGED <<pathVars, smoothVars, parseVars, diagramVars, splitVars>>

NextApp ==
    \/ UseEffect
    \/ Timeout
    \/ HandleParseSQL
    \/ HandleParseJSON
    \/ HandleImport
    \/ HandleWheel
    \/ PanCanvas
    \/ ZoomIn
    \/ ZoomOut
    \/ ZoomReset
    \/ CardMouseDown
    \/ CardMouseMove
    \/ CardMouseUp
    \/ CloseDetails

SpecApp == InitApp /\ [][NextApp]_vars

(***************************************************************************)
(* splitColumns applied to an arbitrary text of letters, commas,           *)
(* parentheses and spaces.                                                 *)
(***************************************************************************)
MaxBody == 5 \* longest text handed to splitColumns directly
BodyChars == <<"a", ",", "(", ")", " ">>
Bodies == { Str([i \in 1..Len(cs) |-> BodyChars[cs[i]]]) :
                cs \in SeqsUpTo(1..Len(BodyChars), MaxBody) }

InitSplit ==
    /\ pc = "body"
    /\ body \in Bodies
    /\ pieces = <<>>
    /\ IdlePath
    /\ IdleSmooth
    /\ IdleParse
    /\ IdleDiagram
    /\ IdleApp

SplitColumns ==
    /\ pc = "body"
    /\ pieces' = splitColumns(body)
    /\ pc' = "split"
    /\ UNCHANGED body
    /\ UNCHANGED <<pathVars, smoothVars, parseVars, diagramVars, appVars>>

NextSplit == SplitColumns

SpecSplit == InitSplit /\ [][NextSplit]_vars

(***************************************************************************)
(* Properties of findPath.                                                 *)
(***************************************************************************)
Returned == pc \in {"found", "direct"}
Rendered == pc \in {"foundRendered", "directRendered"}

\* C1: findPath returns a sequence of at least two points, whatever the start,
\* the end, the obstacles and the bounds.
C1_AtLeastTwoPoints == Returned => Len(pathPoints) >= 2

\* C2: after findPath, smoothPath and the renderer's re-anchoring, the first
\* point of the path is the requested start and the last point the requested
\* end.
C2_EndpointsAsRequested ==
    Rendered => /\ Len(smoothedPath) >= 1
                /\ smoothedPath[1] = start
                /\ smoothedPath[Len(smoothedPath)] = end

\* C3: when the open list runs empty before any node passes the goal test,
\* findPath returns exactly <<start, end>> with the caller's own coordinates.
C3_DirectLineOnEmptyOpenList ==
    (pc # "search" /\ openList = <<>>) =>
        /\ pc \in {"direct", "directSmoothed", "directRendered"}
        /\ Len(pathPoints) = 2
        /\ pathPoints[1] = start
        /\ pathPoints[2] = end

\* the open list ran empty for a start and an end that are off the grid
C3_Witness ==
    /\ pc = "direct"
    /\ Len(spliced) > 1
    /\ start # Point(Snap(start.x), Snap(start.y))
    /\ end # Point(Snap(end.x), Snap(end.y))

StrictlyInsideBuffered(p, o) ==
    /\ p.x > o.x - GRID_SIZE
    /\ p.x < o.x + o.width + GRID_SIZE
    /\ p.y > o.y - GRID_SIZE
    /\ p.y < o.y + o.height + GRID_SIZE

OutsideRect(p, o) ==
    p.x < o.x \/ p.x > o.x + o.width \/ p.y < o.y \/ p.y > o.y + o.height

IsGridNode(p) == p.x % GRID_SIZE = 0 /\ p.y % GRID_SIZE = 0

\* one obstacle whose centre is the midpoint of start and end, both of which
\* lie outside the obstacle and not strictly inside its buffered rectangle,
\* with a free grid line inside the canvas on some side of the buffer
SeparatedByCentredObstacle ==
    /\ Len(obstacles) = 1
    /\ LET o == obstacles[1]
       IN /\ start.x + end.x = 2 * o.x + o.width
          /\ start.y + end.y = 2 * o.y + o.height
          /\ OutsideRect(start, o) /\ OutsideRect(end, o)
          /\ ~StrictlyInsideBuffered(start, o)
          /\ ~StrictlyInsideBuffered(end, o)
          /\ \/ o.y - GRID_SIZE > 0
             \/ o.y + o.height + GRID_SIZE < canvasBounds.height
             \/ o.x - GRID_SIZE > 0
             \/ o.x + o.width + GRID_SIZE < canvasBounds.width

\* C4: for a start and an end separated by one obstacle centred between them,
\* with free space on a side, the returned path has no grid node strictly
\* inside the obstacle's buffered rectangle.
C4_NoNodeInsideBuffer ==
    (Returned /\ SeparatedByCentredObstacle) =>
        \A i \in 1..Len(pathPoints) :
            IsGridNode(pathPoints[i]) =>
                ~StrictlyInsideBuffered(pathPoints[i], obstacles[1])

\* the grid nodes a path may step on: inside the canvas and off every buffer
FreeNode(p) ==
    ~isObstacle(p.x, p.y, obstacles) /\ ~OutOfBounds(p, canvasBounds)

StepsFrom(S) ==
    { q \in UNION { { Neighbors(p)[k] : k \in 1..4 } : p \in S } : FreeNode(q) }

\* breadth-first distance, in grid steps, from the frontier to the goal;
\* -1 when the goal cannot be reached.  Every node stepped on is free; the
\* node the walk starts from is taken as it is, as findPath takes it.
RECURSIVE Distance(_, _, _, _)
Distance(frontier, visited, goal, d) ==
    IF goal \in frontier THEN d
    ELSE IF frontier = {} THEN 0 - 1
    ELSE LET next == StepsFrom(frontier) \ visited
         IN Distance(next, visited \cup next, goal, d + 1)

ShortestSteps ==
    LET s == Point(startNode.x, startNode.y)
        e == Point(endNode.x, endNode.y)
    IN Distance({s}, {s}, e, 0)

\* C5: a path found by the search has the fewest grid steps of all
\* 4-directional paths from the snapped start to the snapped end that avoid
\* every buffered obstacle and stay inside the canvas.
C5_FoundPathIsShortest ==
    pc = "found" => Len(pathPoints) - 1 = ShortestSteps

\* a found path that had to leave the straight way round an obstacle
C5_Witness ==
    /\ pc = "found"
    /\ obstacles # <<>>
    /\ (Len(pathPoints) - 1) * GRID_SIZE > Heuristic(startNode, endNode)

NoDuplicates(s) == \A i, j \in 1..Len(s) : i # j => s[i] # s[j]

\* C6: the search loop ends, by the goal test or with an empty open list, no
\* node is taken from the open list twice, and no more nodes are taken than
\* the canvas has grid nodes.
C6_SearchTerminates ==
    /\ <>(pc # "search")
    /\ [](NoDuplicates(spliced) /\ Len(spliced) <= (GridW + 1) * (GridH + 1))

\* the open list ran empty after a whole region of the canvas was searched
C6_Witness ==
    /\ pc = "direct"
    /\ Len(spliced) >= 2 * (GridH + 1)

\* C7: smoothPath(smoothPath(p)) = smoothPath(p) for every point sequence p.
C7_SmoothIdempotent == pc = "smooth2" => twice = once

\* a sequence that smoothPath shortens and still leaves with a bend
C7_Witness ==
    /\ pc = "smooth2"
    /\ Len(once) < Len(path)
    /\ Len(once) >= 3

(***************************************************************************)
(* Properties of parseSQL and parseJSONSchema.                             *)
(***************************************************************************)
\* the columns of all the tables of a schema
ColumnsOf(tables) ==
    UNION { { tables[i].columns[j] : j \in 1..Len(tables[i].columns) } :
              i \in 1..Len(tables) }

\* C8: in the schema parseSQL or parseJSONSchema returns, no column has both
\* isPrimaryKey = true and isNullable = true, however the primary key was
\* declared.
C8_PrimaryKeyNotNullable ==
    /\ pc = "sqlParsed" =>
           \A c \in ColumnsOf(sqlResult.tables) : ~(c.isPrimaryKey /\ c.isNullable)
    /\ pc = "jsonParsed" =>
           \A c \in ColumnsOf(jsonResult.schema.tables) :
               ~(c.isPrimaryKey = JBool(TRUE) /\ c.isNullable)

\* C9: in the schema parseSQL or parseJSONSchema returns, every column with
\* isForeignKey = true has its references present, with a target table and a
\* target column.
C9_ForeignKeyHasReferences ==
    /\ pc = "sqlParsed" =>
           \A c \in ColumnsOf(sqlResult.tables) :
               c.isForeignKey => Len(c.references) = 1
    /\ pc = "jsonParsed" =>
           \A c \in ColumnsOf(jsonResult.schema.tables) :
               c.isForeignKey =>
                   /\ Len(c.references) = 1
                   /\ c.references[1].table.t # "undefined"
                   /\ c.references[1].column.t # "undefined"

\* the clauses of the statement parsed that are column definitions carrying
\* PRIMARY KEY, and the place of the column of clause k among the columns of
\* the table: clauses that are not column definitions add no column
InlinePrimaryKeys ==
    { k \in 1..Len(sqlClauses) :
          sqlClauses[k].kind = "column" /\ sqlClauses[k].inlinePK }
ColumnPlace(k) ==
    Cardinality({ j \in 1..k : sqlClauses[j].kind = "column" })

\* C10: a column definition that contains PRIMARY KEY inline is extracted by
\* parseSQL with isPrimaryKey = true and isNullable = false, with NOT NULL in
\* the clause or without it.
C10_InlinePrimaryKeyNotNullable ==
    pc = "sqlParsed" =>
        \A k \in InlinePrimaryKeys :
            /\ Len(sqlResult.tables) >= 1
            /\ Len(sqlResult.tables[1].columns) >= ColumnPlace(k)
            /\ LET c == sqlResult.tables[1].columns[ColumnPlace(k)]
               IN /\ startsWith(sqlClauses[k].text, c.name \o " ")
                  /\ c.isPrimaryKey
                  /\ ~c.isNullable

\* a statement has been parsed that holds an inline PRIMARY KEY with NOT NULL
\* and one without
C10_Witness ==
    /\ pc = "sqlParsed"
    /\ \E k \in InlinePrimaryKeys : sqlClauses[k].notNull
    /\ \E k \in InlinePrimaryKeys : ~sqlClauses[k].notNull
    /\ Len(sqlResult.tables[1].columns) = 2

(***************************************************************************)
(* Properties of the two extractors: defaults, errors and shapes.          *)
(***************************************************************************)
\* the clauses of the statement parsed that define a column and state neither
\* NOT NULL nor PRIMARY KEY, and the column entries of the JSON document
\* parsed that have no nullable key
PlainColumns ==
    { k \in 1..Len(sqlClauses) :
          /\ sqlClauses[k].kind = "column"
          /\ ~sqlClauses[k].inlinePK
          /\ ~sqlClauses[k].notNull }
NoNullableKey ==
    { k \in 1..Len(jsonColumns) : ~includes(jsonColumns[k], "\"nullable\"") }

\* the text after the statement written from sqlClauses; with no semicolon
\* before it, parseSQL reads the last definition on to the last closing
\* parenthesis before the next semicolon or the end of the text
AfterStatement == SubSeq(sql, Len(SqlStatement(sqlClauses, "")) + 1, Len(sql))
ReadOn == AfterStatement # "" /\ Ch(AfterStatement, 1) # ";"
DefinitionAsRead(k) ==
    IF k = Len(sqlClauses) /\ ReadOn
    THEN sqlClauses[k].text \o "\n)" \o AfterStatement
    ELSE sqlClauses[k].text
PlainAsRead ==
    { k \in PlainColumns :
          /\ ~includes(toUpperCase(DefinitionAsRead(k)), "NOT NULL")
          /\ ~includes(toUpperCase(DefinitionAsRead(k)), "PRIMARY KEY") }

\* C11 as stated: a column that says nothing about nullability is extracted
\* by parseSQL as not nullable (isNullable = false) and by parseJSONSchema as
\* nullable (isNullable = true).
C11_OppositeDefaults ==
    /\ pc = "sqlParsed" =>
           \A k \in PlainColumns :
               ~sqlResult.tables[1].columns[ColumnPlace(k)].isNullable
    /\ pc = "jsonParsed" /\ jsonColumns # <<>> =>
           \A k \in NoNullableKey :
               jsonResult.schema.tables[1].columns[k].isNullable

\* C11 as amended: a column that says nothing about nullability is extracted
\* as nullable (isNullable = true) by both extractors: by parseSQL from a
\* column definition that holds neither NOT NULL nor PRIMARY KEY up to the
\* comma or the closing parenthesis parseSQL ends it at, and by
\* parseJSONSchema from a column entry with no nullable key.
C11_BothDefaultNullable ==
    /\ pc = "sqlParsed" =>
           \A k \in PlainAsRead :
               /\ Len(sqlResult.tables) >= 1
               /\ Len(sqlResult.tables[1].columns) >= ColumnPlace(k)
               /\ startsWith(sqlClauses[k].text,
                             sqlResult.tables[1].columns[ColumnPlace(k)].name \o " ")
               /\ sqlResult.tables[1].columns[ColumnPlace(k)].isNullable
    /\ pc = "jsonParsed" /\ jsonColumns # <<>> =>
           \A k \in NoNullableKey :
               /\ Len(jsonResult.schema.tables) = 1
               /\ Len(jsonResult.schema.tables[1].columns) = Len(jsonColumns)
               /\ jsonResult.schema.tables[1].columns[k].isNullable

\* a JSON document has been parsed that holds a column entry without a
\* nullable key and one with "nullable": false
C11_Witness ==
    /\ pc = "jsonParsed"
    /\ NoNullableKey # {}
    /\ NoNullableKey # 1..Len(jsonColumns)
    /\ Len(jsonResult.schema.tables[1].columns) = 2

\* C12: parseSQL returns an error exactly when it extracted zero tables, and
\* with an error both tables and relationships are empty; a statement that is
\* recognised gives a table and no error whatever its clauses are, a malformed
\* one among them, and a text without a statement gives the error.
C12_ErrorIffNoTables ==
    pc = "sqlParsed" =>
        /\ Len(sqlResult.error) = 1 <=> Len(sqlResult.tables) = 0
        /\ Len(sqlResult.error) = 1 => sqlResult.relationships = <<>>
        /\ sqlClauses # <<>> =>
               /\ Len(sqlResult.error) = 0
               /\ Len(sqlResult.tables) >= 1
               /\ sqlResult.tables[1].name = "Orders"
        /\ sql \in SqlOddTexts => Len(sqlResult.error) = 1

\* a statement holding a malformed clause and a foreign key has been parsed,
\* and it gave a relationship
C12_Witness ==
    /\ pc = "sqlParsed"
    /\ \E k \in 1..Len(sqlClauses) : sqlClauses[k].kind = "malformed"
    /\ Len(sqlResult.relationships) = 1
    /\ Len(sqlResult.error) = 0

\* C13: parseJSONSchema returns a result for every text, and if the text is
\* not valid JSON, or decodes to a document without a tables array, or a table
\* or column entry has the wrong shape, the result carries an error message
\* and a schema with no tables and no relationships.
C13_ErrorAndEmptySchema ==
    pc = "jsonParsed"
        /\ json \in JsonOddTexts.invalid \cup JsonOddTexts.noTables
                        \cup JsonOddTexts.wrongShape
        => /\ Len(jsonResult.error) = 1
           /\ jsonResult.schema.tables = <<>>
           /\ jsonResult.schema.relationships = <<>>

\* the name a column definition clause starts with, the column clauses of
\* the statement parsed in the order written, and the table the text after
\* the statement declares
ClauseName(k) ==
    SubSeq(sqlClauses[k].text, 1, IndexOfFrom(sqlClauses[k].text, " ", 1) - 1)
ColumnClauses ==
    SelectSeq([k \in 1..Len(sqlClauses) |-> k],
              LAMBDA k : sqlClauses[k].kind = "column")
SecondTable ==
    IF includes(AfterStatement, "users") THEN [id |-> "users", name |-> "users"]
    ELSE [id |-> "audit_log", name |-> "Audit_Log"]

\* C16: for every CREATE TABLE statement parseSQL recognises, with name t,
\* the result holds a table whose id is t lowercased and whose name is t as
\* written, and the columns of the table are those of the column definition
\* clauses of the statement, in the order of the clauses.
C16_TableIdNameAndColumnOrder ==
    pc = "sqlParsed" /\ sqlClauses # <<>> =>
        /\ Len(sqlResult.tables) >= 1
        /\ sqlResult.tables[1].id = "orders"
        /\ sqlResult.tables[1].name = "Orders"
        /\ [j \in 1..Len(sqlResult.tables[1].columns) |->
                sqlResult.tables[1].columns[j].name]
               = [j \in 1..Len(ColumnClauses) |-> ClauseName(ColumnClauses[j])]
        /\ Len(sqlResult.tables) <= 2
        /\ Len(sqlResult.tables) = 2 =>
               /\ sqlResult.tables[2].id = SecondTable.id
               /\ sqlResult.tables[2].name = SecondTable.name
               /\ Len(sqlResult.tables[2].columns) = 1

\* two statements have been parsed, the first with two column definitions
\* of different names, the second with a name in mixed case
C16_Witness ==
    /\ pc = "sqlParsed"
    /\ Len(ColumnClauses) = 2
    /\ ClauseName(1) # ClauseName(2)
    /\ Len(sqlResult.tables) = 2
    /\ sqlResult.tables[2].name = "Audit_Log"

\* whether the definition of clause k, as parseSQL reads it, holds the text,
\* in any letter case and with any white space between its words
HoldsAsRead(k, text) ==
    includes(toUpperCase(CollapseSpaces(DefinitionAsRead(k))), text)

\* C17: a table-level PRIMARY KEY (n1, ..., nk) clause sets isPrimaryKey =
\* true on exactly those columns of the table that were declared before the
\* clause and whose name matches one of n1..nk case-insensitively; it changes
\* no other field of any column, creates no column for an unmatched name, and
\* reports no error.  The clause of the statements parsed is PRIMARY KEY (ID).
C17_PrimaryKeyClauseMarksMatching ==
    pc = "sqlParsed"
        /\ (\E p \in 1..Len(sqlClauses) : sqlClauses[p].kind = "primaryKey")
        => /\ Len(sqlResult.error) = 0
           /\ Len(sqlResult.tables[1].columns) = Len(ColumnClauses)
           /\ \A j \in 1..Len(ColumnClauses) :
                  LET k == ColumnClauses[j]
                      c == sqlResult.tables[1].columns[j]
                  IN /\ c.name = ClauseName(k)
                     /\ c.isPrimaryKey
                            <=> \/ HoldsAsRead(k, "PRIMARY KEY")
                                \/ /\ toLowerCase(c.name) = "id"
                                   /\ \E p \in (k + 1)..Len(sqlClauses) :
                                          sqlClauses[p].kind = "primaryKey"
                     /\ c.isNullable
                            <=> ~(HoldsAsRead(k, "NOT NULL")
                                      \/ HoldsAsRead(k, "PRIMARY KEY"))

\* the table-level FOREIGN KEY clauses of the statement parsed whose column,
\* id, is declared by no column definition before the clause, those whose
\* column is declared, and the column definitions with an inline REFERENCES
\* users(id)
Declared(k, name) ==
    \E j \in 1..(k - 1) :
        sqlClauses[j].kind = "column" /\ toLowerCase(ClauseName(j)) = name
UndeclaredForeignKeys ==
    { k \in 1..Len(sqlClauses) :
          sqlClauses[k].kind = "foreignKey" /\ ~Declared(k, "id") }
DeclaredForeignKeys ==
    { k \in 1..Len(sqlClauses) :
          sqlClauses[k].kind = "foreignKey" /\ Declared(k, "id") }
InlineReferences ==
    { k \in 1..Len(sqlClauses) :
          sqlClauses[k].kind = "column"
              /\ includes(sqlClauses[k].text, "REFERENCES users(id)") }

\* C18: a table-level FOREIGN KEY clause whose referencing column is not a
\* declared column of the table is silently skipped: parseSQL reports no
\* error, changes no column, and appends no Relationship for the clause, so
\* that the relationships are those of the other clauses.
C18_UndeclaredForeignKeySkipped ==
    pc = "sqlParsed" /\ UndeclaredForeignKeys # {} =>
        /\ Len(sqlResult.error) = 0
        /\ Len(sqlResult.tables[1].columns) = Len(ColumnClauses)
        /\ \A j \in 1..Len(ColumnClauses) :
               /\ sqlResult.tables[1].columns[j].name = ClauseName(ColumnClauses[j])
               /\ sqlResult.tables[1].columns[j].isForeignKey
                      <=> HoldsAsRead(ColumnClauses[j], "REFERENCES")
        /\ Len(sqlResult.relationships)
               = Cardinality(InlineReferences) + Cardinality(DeclaredForeignKeys)

\* the number of CREATE TABLE statements of the text parsed: the statement
\* written from sqlClauses and the one that may follow it, each with balanced
\* parentheses
StatementCount == IF AfterStatement \in {"", ";"} THEN 1 ELSE 2

\* C19: for a text holding k CREATE TABLE statements whose parentheses each
\* balance, parseSQL returns k tables, one per statement, whether or not the
\* statements end with a semicolon.
C19_OneTablePerStatement ==
    pc = "sqlParsed" /\ sqlClauses # <<>> =>
        /\ Len(sqlResult.tables) = StatementCount
        /\ sqlResult.tables[1].name = "Orders"
        /\ StatementCount = 2 => sqlResult.tables[2].name = SecondTable.name

\* the data types the README lists as recognised, the type token of a column
\* definition clause (its second word, a size suffix included), and the base
\* type of a token (the token without its size suffix)
RecognisedTypes ==
    { "int4", "int", "text", "varchar", "uuid", "float4", "float", "real",
      "boolean", "bool", "timestamp", "datetime" }
ClauseRest(k) ==
    SubSeq(sqlClauses[k].text, Len(ClauseName(k)) + 2, Len(sqlClauses[k].text))
ClauseType(k) ==
    IF IndexOfFrom(ClauseRest(k), " ", 1) = 0 THEN ClauseRest(k)
    ELSE SubSeq(ClauseRest(k), 1, IndexOfFrom(ClauseRest(k), " ", 1) - 1)
BaseType(token) ==
    IF IndexOfFrom(token, "(", 1) = 0 THEN token
    ELSE SubSeq(token, 1, IndexOfFrom(token, "(", 1) - 1)

\* C20: parseSQL lowercases the type token of a column only when it is one of
\* the recognised base types; a type token that is not recognised is stored
\* in the column's type exactly as written, letter case included.
C20_UnrecognisedTypeVerbatim ==
    pc = "sqlParsed" =>
        \A j \in 1..Len(ColumnClauses) :
            /\ Len(sqlResult.tables[1].columns) >= j
            /\ sqlResult.tables[1].columns[j].type
                   = IF toLowerCase(BaseType(ClauseType(ColumnClauses[j])))
                            \in RecognisedTypes
                     THEN toLowerCase(ClauseType(ColumnClauses[j]))
                     ELSE ClauseType(ColumnClauses[j])

\* C21: in every table returned by parseSQL or parseJSONSchema, the names of
\* the columns are pairwise distinct.
C21_ColumnNamesDistinct ==
    /\ pc = "sqlParsed" =>
           \A t \in 1..Len(sqlResult.tables) :
               \A i, j \in 1..Len(sqlResult.tables[t].columns) :
                   i # j => sqlResult.tables[t].columns[i].name
                                # sqlResult.tables[t].columns[j].name
    /\ pc = "jsonParsed" =>
           \A t \in 1..Len(jsonResult.schema.tables) :
               \A i, j \in 1..Len(jsonResult.schema.tables[t].columns) :
                   i # j => jsonResult.schema.tables[t].columns[i].name
                                # jsonResult.schema.tables[t].columns[j].name

(***************************************************************************)
(* Properties of exportDiagram and importDiagram.                          *)
(***************************************************************************)
\* C14: for every diagram state, importDiagram(exportDiagram(state)) returns
\* data and no error, and the schema, the positions and the viewState (zoom,
\* pan) of the data are structurally equal to those of the state.
C14_ExportImportRoundTrip ==
    pc = "reimported" =>
        /\ Len(imported.data) = 1
        /\ Len(imported.error) = 0
        /\ Get(imported.data[1], "schema") = state.schema
        /\ Get(imported.data[1], "positions") = state.positions
        /\ Get(imported.data[1], "viewState")
               = Object(<<"zoom", "pan">>, <<state.zoom, state.pan>>)

\* the four top-level keys of an export file, and whether a decoded document
\* has a member under a key
ExportKeys == {"version", "schema", "positions", "viewState"}
HasKey(value, key) ==
    value.t = "object" /\ \E i \in 1..Len(value.o) : value.o[i].k = key
Decodes(text) == JSONparse(text).ok

\* C15 as stated: importDiagram accepts a decoded document exactly when all
\* four top-level keys version, schema, positions and viewState are present,
\* whatever their values; in every other case it returns an error and no
\* data.
C15_AcceptsIffFourKeysPresent ==
    pc = "imported" =>
        /\ Len(imported.data) = 1
               <=> /\ Decodes(content)
                   /\ \A key \in ExportKeys : HasKey(JSONparse(content).v, key)
        /\ Len(imported.data) = 0 <=> Len(imported.error) = 1

\* C15 as amended: importDiagram accepts a decoded document exactly when all
\* four top-level keys version, schema, positions and viewState are present
\* with a value other than null, false, 0 and the empty string, and then the
\* data is the decoded document; in every other case it returns an error and
\* no data.
C15_AcceptsIffFourKeysHold ==
    pc = "imported" =>
        /\ Len(imported.data) = 1
               <=> /\ Decodes(content)
                   /\ \A key \in ExportKeys :
                          /\ HasKey(JSONparse(content).v, key)
                          /\ Get(JSONparse(content).v, key)
                                 \notin {JNull, JBool(FALSE), JNum(0), JStr("")}
        /\ Len(imported.data) = 1 => imported.data[1] = JSONparse(content).v
        /\ Len(imported.data) = 0 <=> Len(imported.error) = 1

\* a file whose four keys hold values of the wrong types has been accepted
C15_Witness ==
    /\ pc = "imported"
    /\ content = "{\"version\":\"2\",\"schema\":5,\"positions\":\"a\",\"viewState\":true}"
    /\ Len(imported.data) = 1

(***************************************************************************)
(* Properties of the App.                                                  *)
(***************************************************************************)
\* a parse of an input its parser reports an error for, or an import of a file
\* that cannot be read or that importDiagram reports an error for
Failure ==
    \/ \E input \in SqlInputs : input.result.error # <<>> /\ ParseSQLInput(input)
    \/ \E input \in JsonInputs : input.result.error # <<>> /\ ParseJSONInput(input)
    \/ \E file \in ImportFiles :
           (~file.readable \/ file.result.error # <<>>) /\ ImportFile(file)

\* C22: when a SQL parse, a JSON parse or a diagram import fails, the schema,
\* the positions, the zoom, the pan and the selected table are left exactly as
\* they were; only the error message changes.
C22_FailureChangesOnlyError ==
    [][Failure => /\ app'.schema = app.schema
                  /\ app'.positions = app.positions
                  /\ app'.zoom = app.zoom
                  /\ app'.pan = app.pan
                  /\ app'.selectedTableId = app.selectedTableId]_vars
\* a parse has failed in a diagram with a selected table, away from the
\* initial zoom and pan
C22_Witness ==
    /\ app.error = JStr("No CREATE TABLE statements found")
    /\ app.selectedTableId # JNull
    /\ app.zoom # JNum(100)
    /\ app.pan # InitialApp.pan

\* a relationship of the schema names a table the schema does not hold
MissingTable(schema) ==
    \E i \in 1..Len(Get(schema, "relationships").a) :
        /\ Get(Get(schema, "relationships").a[i], "toTable").t = "string"
        /\ JStr(toLowerCase(Get(Get(schema, "relationships").a[i], "toTable").s))
               \notin TableIds(schema)

\* C23: when the parsed input contains a foreign key whose referenced table is
\* not among the parsed tables, the parse leaves an error in the error state
\* shown in the input panel.
C23_MissingTableReported ==
    [][MissingTable(app'.schema) /\ (HandleParseSQL \/ HandleParseJSON \/ UseEffect)
           => app'.error # JNull]_vars

\* C24: in every reachable state of the App the zoom factor lies between
\* MIN_ZOOM and MAX_ZOOM inclusive.
C24_ZoomWithinLimits ==
    /\ app.zoom.t = "number"
    /\ MIN_ZOOM <= app.zoom.n
    /\ app.zoom.n <= MAX_ZOOM

(***************************************************************************)
(* Further properties of findPath, smoothPath and splitColumns.            *)
(***************************************************************************)
\* C25: no point of a path found by the search lies within an obstacle
\* rectangle expanded by one cell size on every side, and none lies outside
\* the canvas bounds.
C25_FoundPathClear ==
    pc = "found" =>
        \A i \in 1..Len(pathPoints) :
            /\ ~isObstacle(pathPoints[i].x, pathPoints[i].y, obstacles)
            /\ ~OutOfBounds(pathPoints[i], canvasBounds)

\* C26: a path found by the search runs from the start to the end: its first
\* point is the start snapped to the grid, its last point is the end snapped
\* to the grid, two consecutive points differ by exactly one cell size in
\* exactly one axis, and no point occurs twice.
C26_FoundPathStartToEnd ==
    pc = "found" =>
        /\ pathPoints[1] = Point(Snap(start.x), Snap(start.y))
        /\ pathPoints[Len(pathPoints)] = Point(Snap(end.x), Snap(end.y))
        /\ \A i \in 1..(Len(pathPoints) - 1) :
               Abs(pathPoints[i + 1].x - pathPoints[i].x)
                   + Abs(pathPoints[i + 1].y - pathPoints[i].y) = GRID_SIZE
        /\ \A i \in 1..(Len(pathPoints) - 1) :
               pathPoints[i + 1].x = pathPoints[i].x \/ pathPoints[i + 1].y = pathPoints[i].y
        /\ \A i, j \in 1..Len(pathPoints) : i # j => pathPoints[i] # pathPoints[j]
\* a found path that goes round an obstacle, from a start and to an end that
\* are off the grid
C26_Witness ==
    /\ pc = "found"
    /\ obstacles # <<>>
    /\ Len(pathPoints) >= 4
    /\ start.x % GRID_SIZE # 0
    /\ end.y % GRID_SIZE # 0
    /\ \E i \in 2..(Len(pathPoints) - 1) :
           /\ pathPoints[i - 1].x # pathPoints[i + 1].x
           /\ pathPoints[i - 1].y # pathPoints[i + 1].y

\* the reference rule: an interior point is dropped exactly when the signs of
\* the displacement from its predecessor in the input equal, in both axes, the
\* signs of the displacement to its successor
DroppedByRule(p, i) ==
    /\ 1 < i
    /\ i < Len(p)
    /\ Sign(p[i].x - p[i - 1].x) = Sign(p[i + 1].x - p[i].x)
    /\ Sign(p[i].y - p[i - 1].y) = Sign(p[i + 1].y - p[i].y)
KeptByRule(p) ==
    IF Len(p) < 3 THEN p
    ELSE [k \in 1..Cardinality({ i \in 1..Len(p) : ~DroppedByRule(p, i) }) |->
              p[CHOOSE i \in 1..Len(p) :
                    /\ ~DroppedByRule(p, i)
                    /\ Cardinality({ j \in 1..i : ~DroppedByRule(p, j) }) = k]]

\* C27: smoothPath returns what the reference rule returns, which compares
\* each interior point with its immediate predecessor in the input; sequences
\* shorter than 3 points are returned unchanged.
C27_SmoothAsReferenceRule ==
    pc \in {"smooth1", "smooth2"} => once = KeptByRule(path)
\* the second point is dropped, so that the third is compared with the first,
\* which is not its predecessor in the input, and is kept
C27_Witness ==
    /\ pc = "smooth1"
    /\ Len(path) = 4
    /\ path[1] # path[2]
    /\ DroppedByRule(path, 2)
    /\ once = << path[1], path[3], path[4] >>

\* every ")" of the text closes a "(" before it, and every "(" is closed
Balanced(text) ==
    /\ \A i \in 1..Len(text) : DepthAt(text, i + 1) >= 0
    /\ DepthAt(text, Len(text) + 1) = 0
\* the commas of the text outside parentheses
OuterCommas(text) ==
    { i \in 1..Len(text) : Ch(text, i) = "," /\ DepthAt(text, i) = 0 }
\* the characters of the text that are neither spaces nor commas outside
\* parentheses, in their order
Content(text) ==
    LET kept == SelectSeq([i \in 1..Len(text) |-> i],
                          LAMBDA i : ~IsSpace(Ch(text, i)) /\ i \notin OuterCommas(text))
    IN Str([k \in 1..Len(kept) |-> Ch(text, kept[k])])
RECURSIVE ContentOfAll(_, _)
ContentOfAll(texts, k) ==
    IF k > Len(texts) THEN "" ELSE Content(texts[k]) \o ContentOfAll(texts, k + 1)

\* C28: splitColumns splits a body with balanced parentheses only at the commas
\* outside parentheses: there is one piece for each such comma, and at most
\* one more; no piece holds a comma outside parentheses; every piece has
\* balanced parentheses, so that a comma inside parentheses stays in its piece;
\* and the pieces, one after the other, hold the characters of the body in
\* their order, spaces and the commas outside parentheses left out.
C28_SplitAtOuterCommasOnly ==
    (pc = "split" /\ Balanced(body)) =>
        /\ Len(pieces) \in { Cardinality(OuterCommas(body)),
                             Cardinality(OuterCommas(body)) + 1 }
        /\ \A k \in 1..Len(pieces) : OuterCommas(pieces[k]) = {}
        /\ \A k \in 1..Len(pieces) : Balanced(pieces[k])
        /\ ContentOfAll(pieces, 1) = Content(body)
\* a body with a comma inside parentheses and a comma outside
C28_Witness ==
    /\ pc = "split"
    /\ Balanced(body)
    /\ OuterCommas(body) # {}
    /\ Len(pieces) = 2
    /\ \E i \in 1..Len(pieces[1]) : Ch(pieces[1], i) = ","
    /\ pieces[2] # ""

\* C29: in every reachable state of the App, selectedTableId is null or the id
\* of a table of the current schema.
C29_SelectionInSchema ==
    \/ app.selectedTableId = JNull
    \/ app.selectedTableId \in TableIds(app.schema)
\* a table is selected in a schema that replaced another one, and a parse has
\* failed since the schema was shown
C29_Witness ==
    /\ app.selectedTableId = JStr("users")
    /\ JStr("orders") \in TableIds(app.schema)
    /\ app.error # JNull
    /\ dragging = <<>>

\* the schemas a successful parse shows
ParsedSchemas ==
    { SqlSchema(input.result) : input \in { i \in SqlInputs : i.result.error = <<>> } }
        \cup { JsonSchema(input.result) : input \in { i \in JsonInputs : i.result.error = <<>> } }
        \cup { SqlSchema(parseSQL(airbnbSchema)) }

\* C30: once the schema has been set by a successful SQL or JSON parse, every
\* table of the current schema has an entry in positions under its id.
C30_EveryTableHasPosition ==
    app.schema \in ParsedSchemas =>
        \A id \in TableIds(app.schema) : Get(app.positions, id.s) # JUndefined

====
